---- MODULE Spec2Model ----
(***************************************************************************)
(* A model of pyxl_validator: the cell validators of table_validator.py,   *)
(* the row diff orchestrator of excel_compare.py and the DiffConsumer of   *)
(* excel_differator.py.                                                    *)
(*                                                                         *)
(* Python values are records [t, c, n, m, u, s]:                           *)
(*   t  the Python type name,                                              *)
(*   c  "fin", "nan", "inf" for floats; "fin", "big" for ints ("big" is an *)
(*      int whose magnitude is beyond the range of a double); "" otherwise *)
(*   n  the payload: 0/1 for bool, the integer of an int, the fixed-point  *)
(*      value of a finite float (in units of 10^-FracDigits), the sign of  *)
(*      an infinity or of a big int, yyyymmdd for a date or datetime, the  *)
(*      identity of an arbitrary object,                                   *)
(*   m  second of the day of a datetime, u its microsecond,                *)
(*   s  the characters of a str, one per element.                          *)
(* Floats are decimal fixed-point numbers: exact on the literals used      *)
(* here, where a double would be the nearest binary value.                 *)
(***************************************************************************)
EXTENDS Integers, Sequences, FiniteSets, TLC

VARIABLES
    val1, val2,        \* SpecVal: the two values handed to compare
    validator,         \* SpecVal: the validator the call went to
    outcome,           \* SpecVal: what compare returned, or the exception
    vpc,               \* SpecVal: "ready" before the call, "done" after
    row1, row2,        \* SpecRow: the two rows handed to compare_a_row
    validator_arr,     \* SpecRow and Spec: the caller's validator array
    differences,       \* SpecRow: what compare_a_row returned
    rpc,               \* SpecRow: "ready" before the call, "done" after
    tab1, tab2,        \* Spec: the measured / reference table [max_col, rows]
    consumer,          \* Spec: consumer of the current call ("None" or a recorder)
    enum1, enum2,      \* Spec: the TableRowEnumerators [current, max_row]
    max_rows,          \* Spec: max_rows of the current call
    r,                 \* Spec: the logical row compare_next is called with next
    all_differences,   \* Spec: the list of the current call (None in consumer mode)
    calls,             \* Spec: the diff calls the recording consumer received
    returned,          \* Spec: per mode, how the call of that mode ended
    pc,                \* Spec: "idle", "loop", "returned", "raised"; "off" elsewhere
    formats2,          \* SpecDiff: the fill colour of each cell of the reference table
    readonly2,         \* SpecDiff: the reference engine's [is_readonly, is_engine_readonly]
    start_max_cols2,   \* SpecDiff: DiffConsumer.start_max_cols2
    summary,           \* the ComparisonSummary [none, header_values, keys, results]
    entry,             \* SpecDiff: the operation that was called, with its arguments
    validator_registry, \* SpecReg: the ValidatorRegistry
    adds,              \* SpecSum: the outcomes of the add calls made so far
    first,             \* SpecTwice: how the first of the two runs ended
    last               \* the last call of a method: [op, ...] with its result

valVars == <<val1, val2, validator, outcome, vpc>>
rowVars == <<row1, row2, differences, rpc>>
runVars == <<tab1, tab2, consumer, enum1, enum2, max_rows, r, all_differences,
             calls, returned, pc>>
diffVars == <<formats2, readonly2, start_max_cols2, summary, entry>>
apiVars == <<validator_registry, adds, first, last>>
vars == <<valVars, rowVars, validator_arr, runVars, diffVars, apiVars>>

-----------------------------------------------------------------------------
(* Bounds of the model *)

\* decimal digits kept behind the point of a float
FracDigits == 3
\* most rows of a table
MaxRows == 2
\* most columns of a table, longest row, longest validator array
MaxCols == 2

RECURSIVE Pow10(_)
Pow10(k) == IF k <= 0 THEN 1 ELSE 10 * Pow10(k - 1)

Scale == Pow10(FracDigits)

Abs(x) == IF x < 0 THEN -x ELSE x

\* integer division truncating toward zero, as int(float) does
TruncDiv(a, b) == IF a >= 0 THEN a \div b ELSE -((-a) \div b)

-----------------------------------------------------------------------------
(* Python values *)

Val(t, c, n, m, u, s) == [t |-> t, c |-> c, n |-> n, m |-> m, u |-> u, s |-> s]

NoneV == Val("NoneType", "", 0, 0, 0, <<>>)
BoolV(b) == Val("bool", "", IF b THEN 1 ELSE 0, 0, 0, <<>>)
IntV(n) == Val("int", "fin", n, 0, 0, <<>>)
BigIntV == Val("int", "big", 1, 0, 0, <<>>)
FloatV(n) == Val("float", "fin", n, 0, 0, <<>>)
NaN == Val("float", "nan", 0, 0, 0, <<>>)
Inf(sign) == Val("float", "inf", sign, 0, 0, <<>>)
StrV(s) == Val("str", "", 0, 0, 0, s)
DateTimeV(ymd, sec, us) == Val("datetime", "", ymd, sec, us, <<>>)
DateV(ymd) == Val("date", "", ymd, 0, 0, <<>>)
ObjV(id) == Val("object", "", id, 0, 0, <<>>)

\* isinstance(val, int) is true of a bool, isinstance(val, datetime) is not
\* true of a date
IsInstanceInt(v) == v.t \in {"int", "bool"}
IsInstanceFloat(v) == v.t = "float"
IsNumeric(v) == v.t \in {"bool", "int", "float"}

\* Python's == on two numbers of any of the three numeric types
NumEq(a, b) ==
    IF a.c = "nan" \/ b.c = "nan" THEN FALSE
    ELSE IF a.c \in {"inf", "big"} \/ b.c \in {"inf", "big"}
         THEN a.c = b.c /\ a.n = b.n
    ELSE (IF a.t = "float" THEN a.n ELSE a.n * Scale)
         = (IF b.t = "float" THEN b.n ELSE b.n * Scale)

\* val1 == val2
PyEq(a, b) ==
    IF IsNumeric(a) /\ IsNumeric(b) THEN NumEq(a, b)
    ELSE a.t = b.t /\ a.t \notin {"bool", "int", "float"} /\ a = b

\* a seeded fault for C8: the type test left out
AnyType(a, b) == TRUE

\* type(val1) == type(val2)
SameType(a, b) == a.t = b.t

-----------------------------------------------------------------------------
(* str methods *)

Digits == {"0", "1", "2", "3", "4", "5", "6", "7", "8", "9"}

DigitVal(ch) ==
    CASE ch = "0" -> 0 [] ch = "1" -> 1 [] ch = "2" -> 2 [] ch = "3" -> 3
      [] ch = "4" -> 4 [] ch = "5" -> 5 [] ch = "6" -> 6 [] ch = "7" -> 7
      [] ch = "8" -> 8 [] ch = "9" -> 9

Whitespace == {" ", "\t", "\n"}

RECURSIVE LStrip(_)
LStrip(s) == IF s # <<>> /\ Head(s) \in Whitespace THEN LStrip(Tail(s)) ELSE s

RECURSIVE RStrip(_)
RStrip(s) ==
    IF s # <<>> /\ s[Len(s)] \in Whitespace
    THEN RStrip(SubSeq(s, 1, Len(s) - 1)) ELSE s

\* str.strip()
Strip(s) == RStrip(LStrip(s))

LowerChar(ch) ==
    CASE ch = "A" -> "a" [] ch = "B" -> "b" [] ch = "C" -> "c" [] ch = "D" -> "d"
      [] ch = "E" -> "e" [] ch = "F" -> "f" [] ch = "G" -> "g" [] ch = "H" -> "h"
      [] ch = "I" -> "i" [] ch = "J" -> "j" [] ch = "K" -> "k" [] ch = "L" -> "l"
      [] ch = "M" -> "m" [] ch = "N" -> "n" [] ch = "O" -> "o" [] ch = "P" -> "p"
      [] ch = "Q" -> "q" [] ch = "R" -> "r" [] ch = "S" -> "s" [] ch = "T" -> "t"
      [] ch = "U" -> "u" [] ch = "V" -> "v" [] ch = "W" -> "w" [] ch = "X" -> "x"
      [] ch = "Y" -> "y" [] ch = "Z" -> "z" [] OTHER -> ch

\* str.lower()
Lower(s) == [i \in 1..Len(s) |-> LowerChar(s[i])]

\* pat in s
Contains(s, pat) ==
    \E i \in 1..(Len(s) - Len(pat) + 1) : SubSeq(s, i, i + Len(pat) - 1) = pat

\* s.replace(pat, rep), pat not empty
RECURSIVE Replace(_, _, _)
Replace(s, pat, rep) ==
    IF Len(s) < Len(pat) THEN s
    ELSE IF SubSeq(s, 1, Len(pat)) = pat
         THEN rep \o Replace(SubSeq(s, Len(pat) + 1, Len(s)), pat, rep)
         ELSE <<Head(s)>> \o Replace(Tail(s), pat, rep)

AllDigits(s) == \A i \in 1..Len(s) : s[i] \in Digits

\* the value of a string of digits
RECURSIVE DigitsValue(_)
DigitsValue(s) ==
    IF s = <<>> THEN 0
    ELSE 10 * DigitsValue(SubSeq(s, 1, Len(s) - 1)) + DigitVal(s[Len(s)])

HasSign(s) == s # <<>> /\ s[1] \in {"+", "-"}
Unsigned(s) == IF HasSign(s) THEN Tail(s) ELSE s
SignOf(s) == IF s # <<>> /\ s[1] = "-" THEN -1 ELSE 1

\* index of the first ch in s, 0 when there is none
FirstIndex(s, ch) ==
    IF \E i \in 1..Len(s) : s[i] = ch
    THEN CHOOSE i \in 1..Len(s) : s[i] = ch /\ \A j \in 1..(i - 1) : s[j] # ch
    ELSE 0

-----------------------------------------------------------------------------
(* Type detection and normalisation (table_validator.py, 366-444) *)

\* what a detector hands back: the (like, normalized) tuple it returns, or the
\* exception it raises
Ret(like, norm) == [like |-> like, norm |-> norm, exc |-> "none"]
Raise(e) == [like |-> FALSE, norm |-> NoneV, exc |-> e]

\* PYTHON_INT_REGEX.match(s): ^[+-]?\d+$
PYTHON_INT_REGEX(s) == Unsigned(s) # <<>> /\ AllDigits(Unsigned(s))

\* int(s) of a string the integer pattern matches
IntOfStr(s) == SignOf(s) * DigitsValue(Unsigned(s))

\* matches (?:\d+\.\d*|\.\d+|\d+)
MantissaMatches(s) ==
    LET Parts(ip, fp) == AllDigits(ip) /\ AllDigits(fp) /\ Len(ip) + Len(fp) >= 1
        At(di) == Parts(IF di = 0 THEN s ELSE SubSeq(s, 1, di - 1),
                        IF di = 0 THEN <<>> ELSE SubSeq(s, di + 1, Len(s)))
    IN  At(FirstIndex(s, "."))

\* PYTHON_FLOAT_REGEX.match(s): ^[+-]?(?:\d+\.\d*|\.\d+|\d+)(?:[eE][+-]?\d+)?$
PYTHON_FLOAT_REGEX(s) ==
    LET Split(body, ei) ==
            IF ei = 0 THEN MantissaMatches(body)
            ELSE /\ MantissaMatches(SubSeq(body, 1, ei - 1))
                 /\ PYTHON_INT_REGEX(SubSeq(body, ei + 1, Len(body)))
        At(body) == Split(body, FirstIndex(body, "e"))
    IN  At(Lower(Unsigned(s)))

\* float(s) of a string the float pattern matches; a decimal exponent beyond
\* the range of a double gives an infinity (no exception)
FloatOfStr(s) ==
    LET Value(sign, m, e) ==
            IF m = 0 THEN FloatV(0)
            ELSE IF e > 308 THEN Inf(sign)
            ELSE IF e >= 0 THEN FloatV(sign * m * Pow10(e))
            ELSE FloatV(sign * (m \div Pow10(-e)))
        Frac(fp, kept) == DigitsValue(SubSeq(fp, 1, kept)) * Pow10(FracDigits - kept)
        Mantissa(ip, fp) ==
            DigitsValue(ip) * Scale
            + Frac(fp, IF Len(fp) > FracDigits THEN FracDigits ELSE Len(fp))
        MantAt(mant, di) ==
            Mantissa(IF di = 0 THEN mant ELSE SubSeq(mant, 1, di - 1),
                     IF di = 0 THEN <<>> ELSE SubSeq(mant, di + 1, Len(mant)))
        Split(body, ei) ==
            Value(SignOf(s),
                  MantAt(IF ei = 0 THEN body ELSE SubSeq(body, 1, ei - 1),
                         FirstIndex(IF ei = 0 THEN body ELSE SubSeq(body, 1, ei - 1), ".")),
                  IF ei = 0 THEN 0 ELSE IntOfStr(SubSeq(body, ei + 1, Len(body))))
        At(body) == Split(body, FirstIndex(body, "e"))
    IN  At(Lower(Unsigned(s)))

GERMAN_DEZIM == TRUE

is_int_then_normalize(val) ==
    LET OfStr(s) == IF PYTHON_INT_REGEX(s) THEN Ret(TRUE, IntV(IntOfStr(s)))
                    ELSE Ret(FALSE, IntV(0))
    IN  IF IsInstanceInt(val) THEN Ret(TRUE, val)
        ELSE IF IsInstanceFloat(val)
             \* return val.is_integer(), int(val): int() of a NaN raises
             \* ValueError, of an infinity OverflowError
             THEN IF val.c = "nan" THEN Raise("ValueError")
                  ELSE IF val.c = "inf" THEN Raise("OverflowError")
                  ELSE Ret(val.n % Scale = 0, IntV(TruncDiv(val.n, Scale)))
        ELSE IF val.t = "str" THEN OfStr(Strip(val.s))
        ELSE Ret(FALSE, IntV(0))

is_float_then_normalize(val) ==
    LET Parse(cleaned) ==
            IF PYTHON_FLOAT_REGEX(cleaned) THEN Ret(TRUE, FloatOfStr(cleaned))
            ELSE Ret(FALSE, FloatV(0))
        Clean(waehrung, stripped) ==
            Parse(IF waehrung
                  THEN Replace(Replace(stripped, <<".">>, <<>>), <<",">>, <<".">>)
                  ELSE stripped)
        OfStr(v) ==
            Clean(GERMAN_DEZIM /\ (\/ Contains(v, <<"€">>)
                                   \/ Contains(v, <<"e", "u", "r", "o">>)
                                   \/ Contains(v, <<",">>)),
                  Replace(Replace(Replace(v, <<"€">>, <<>>),
                                  <<"e", "u", "r", "o">>, <<>>),
                          <<" ">>, <<>>))
    IN  IF IsInstanceFloat(val) THEN Ret(TRUE, val)
        ELSE IF IsInstanceInt(val)
             \* float(val) of an int beyond the doubles raises OverflowError
             THEN IF val.c = "big" THEN Raise("OverflowError")
                  ELSE Ret(TRUE, FloatV(val.n * Scale))
        ELSE IF val.t = "str" THEN OfStr(Lower(Strip(val.s)))
        ELSE Ret(FALSE, FloatV(0))

is_number_then_normalize(val) ==
    LET Then(i) == IF i.exc # "none" THEN i
                   ELSE IF i.like THEN Ret(TRUE, i.norm)
                   ELSE is_float_then_normalize(val)
    IN  Then(is_int_then_normalize(val))

\* round(x, ndigits) of a float: half to even, on the decimal value
round(x, ndigits) ==
    LET Half(q, rem, unit) ==
            (IF 2 * rem > unit \/ (2 * rem = unit /\ q % 2 = 1) THEN q + 1 ELSE q) * unit
        Mag(a, unit) == Half(a \div unit, a % unit, unit)
    IN  IF x.c # "fin" \/ ndigits >= FracDigits THEN x
        ELSE FloatV((IF x.n < 0 THEN -1 ELSE 1)
                    * Mag(Abs(x.n), Pow10(FracDigits - ndigits)))

\* float + float, float - float, float <= float
FloatAdd(a, b) ==
    IF a.c = "nan" \/ b.c = "nan" THEN NaN
    ELSE IF a.c = "inf" THEN (IF b.c = "inf" /\ b.n # a.n THEN NaN ELSE a)
    ELSE IF b.c = "inf" THEN b
    ELSE FloatV(a.n + b.n)

FloatSub(a, b) == FloatAdd(a, IF b.c = "nan" THEN b ELSE [b EXCEPT !.n = -b.n])

\* a seeded fault for C10: the bounds of the band exclusive
FloatLt(a, b) ==
    IF a.c = "nan" \/ b.c = "nan" THEN FALSE
    ELSE IF a.c = "inf" THEN a.n < 0 \/ (b.c = "inf" /\ b.n > 0)
    ELSE IF b.c = "inf" THEN b.n > 0
    ELSE a.n < b.n

FloatLe(a, b) ==
    IF a.c = "nan" \/ b.c = "nan" THEN FALSE
    ELSE IF a.c = "inf" THEN a.n < 0 \/ (b.c = "inf" /\ b.n > 0)
    ELSE IF b.c = "inf" THEN b.n > 0
    ELSE a.n <= b.n

-----------------------------------------------------------------------------
(* datetime.fromisoformat: the extended format YYYY-MM-DD[?HH[:MM[:SS[.f+]]]]  *)
(* and the basic date YYYYMMDD; week dates and UTC offsets are left out        *)

IsLeap(y) == (y % 4 = 0 /\ y % 100 # 0) \/ y % 400 = 0

DaysInMonth(y, mo) ==
    IF mo \in {4, 6, 9, 11} THEN 30
    ELSE IF mo = 2 THEN (IF IsLeap(y) THEN 29 ELSE 28)
    ELSE 31

\* the [ok, ymd] of the date part
IsoDate(s) ==
    LET Check(shaped, y, mo, d) ==
            [ok |-> shaped /\ y >= 1 /\ mo \in 1..12 /\ d >= 1 /\ d <= DaysInMonth(y, mo),
             ymd |-> IF shaped THEN y * 10000 + mo * 100 + d ELSE 0]
        Fields(shaped, ys, ms, ds) ==
            Check(shaped /\ AllDigits(ys) /\ AllDigits(ms) /\ AllDigits(ds),
                  DigitsValue(ys), DigitsValue(ms), DigitsValue(ds))
        Shape(extended) ==
            Fields(extended \/ Len(s) = 8,
                   SubSeq(s, 1, 4),
                   IF extended THEN SubSeq(s, 6, 7) ELSE SubSeq(s, 5, 6),
                   IF extended THEN SubSeq(s, 9, 10) ELSE SubSeq(s, 7, 8))
    IN  Shape(Len(s) = 10 /\ s[5] = "-" /\ s[8] = "-")

\* the [ok, sec, us] of the time part
IsoTime(s) ==
    LET Micro(fs, kept) == DigitsValue(SubSeq(fs, 1, kept)) * Pow10(6 - kept)
        Check(shaped, h, mi, sec, fs) ==
            [ok |-> shaped /\ h < 24 /\ mi < 60 /\ sec < 60,
             sec |-> IF shaped THEN h * 3600 + mi * 60 + sec ELSE 0,
             us |-> IF shaped /\ Len(s) >= 10
                    THEN Micro(fs, IF Len(fs) > 6 THEN 6 ELSE Len(fs)) ELSE 0]
        Fields(n, hs, mins, ss, fs) ==
            Check(/\ n \in {2, 5, 8} \/ n >= 10
                  /\ AllDigits(hs)
                  /\ n >= 5 => (s[3] = ":" /\ AllDigits(mins))
                  /\ n >= 8 => (s[6] = ":" /\ AllDigits(ss))
                  /\ n >= 10 => (s[9] \in {".", ","} /\ AllDigits(fs)),
                  DigitsValue(hs),
                  IF n >= 5 THEN DigitsValue(mins) ELSE 0,
                  IF n >= 8 THEN DigitsValue(ss) ELSE 0,
                  fs)
    IN  Fields(Len(s), SubSeq(s, 1, 2), SubSeq(s, 4, 5), SubSeq(s, 7, 8),
               SubSeq(s, 10, Len(s)))

fromisoformat(s) ==
    LET Join(dlen, d, t) ==
            IF Len(s) < dlen \/ ~d.ok THEN Raise("ValueError")
            ELSE IF Len(s) = dlen THEN Ret(TRUE, DateTimeV(d.ymd, 0, 0))
            ELSE IF Len(s) >= dlen + 2 /\ t.ok
                 THEN Ret(TRUE, DateTimeV(d.ymd, t.sec, t.us))
            ELSE Raise("ValueError")
        Parts(dlen) ==
            Join(dlen,
                 IsoDate(SubSeq(s, 1, IF Len(s) < dlen THEN Len(s) ELSE dlen)),
                 IsoTime(SubSeq(s, dlen + 2, Len(s))))
    IN  Parts(IF Len(s) >= 10 /\ s[5] = "-" THEN 10 ELSE 8)

is_date_then_normalize(val) ==
    LET Try(d) == IF d.exc = "none" THEN d ELSE Ret(FALSE, NoneV)
    IN  IF val.t = "datetime" THEN Ret(TRUE, val)
        ELSE IF val.t = "date" THEN Ret(TRUE, DateTimeV(val.n, 0, 0))
        ELSE IF val.t = "str" THEN Try(fromisoformat(Strip(val.s)))
        ELSE Ret(FALSE, NoneV)

-----------------------------------------------------------------------------
(* ComparisonResult (table_validator.py, 32-58) *)

ComparisonResult ==
    {"EQUALS", "MATCHING", "ALMOST", "ACCEPTED", "OMITTED", "DIFFERENT",
     "CORRUPTED", "SHORTER", "LONGER"}

\* a seeded fault for C14: a structural outcome taken as acceptable
ok_or_structural(result) ==
    result \in {"EQUALS", "MATCHING", "ALMOST", "ACCEPTED", "OMITTED", "SHORTER"}

\* ComparisonResult.ok
ok(result) == result \in {"EQUALS", "MATCHING", "ALMOST", "ACCEPTED", "OMITTED"}

\* a seeded fault for C16: every outcome that is not acceptable taken as foul
not_ok(result) == ~ok(result)

\* ComparisonResult.foul
foul(result) == result \in {"DIFFERENT", "CORRUPTED"}

\* the (measured value, reference) colours of each outcome
COLOR_MAP ==
    [result \in ComparisonResult |->
        CASE result = "EQUALS" -> <<"FFFFFF", "FFFFFF">>
          [] result = "MATCHING" -> <<"FFFFFF", "CCFFCC">>
          [] result = "ALMOST" -> <<"FFFFFF", "CCFFFF">>
          [] result = "ACCEPTED" -> <<"CCFF99", "FFFF99">>
          [] result = "OMITTED" -> <<"CCCCCC", "CCCCCC">>
          [] result = "DIFFERENT" -> <<"CCFFCC", "FF9999">>
          [] result = "CORRUPTED" -> <<"FF9999", "FF0000">>
          [] result = "SHORTER" -> <<"E0CCFF", "990000">>
          [] result = "LONGER" -> <<"660066", "FFFF99">>]

\* ComparisonResult.get_cell_colors
get_cell_colors(result) ==
    IF result \in DOMAIN COLOR_MAP THEN COLOR_MAP[result] ELSE <<"DDDDDD", "DDDDDD">>

\* what a call may end with instead of a ComparisonResult
Exceptions == {"ValueError", "OverflowError", "IndexError", "TypeError",
               "AttributeError", "Exception"}

-----------------------------------------------------------------------------
(* ComparisonSummary (table_comparison_summary.py, 19-114) *)

\* ComparisonSummary(): results is a defaultdict(list) with no key yet, no
\* header is set; keys lists the keys of results in insertion order, and
\* results[result] is the bucket of a key (empty for an outcome that is no key)
ComparisonSummary ==
    [none |-> FALSE, header_values |-> <<>>, keys |-> <<>>,
     results |-> [result \in ComparisonResult |-> <<>>]]

\* summary = None
NoSummary == [ComparisonSummary EXCEPT !.none = TRUE]

\* self.results[result] of the defaultdict: a missing key is inserted with
\* an empty bucket
results_getitem(s, result) ==
    IF \E k \in DOMAIN s.keys : s.keys[k] = result THEN s
    ELSE [s EXCEPT !.keys = Append(@, result)]

\* summary.add(row, col, val1, val2, result)
ComparisonSummary_add(s, row, col, v1, v2, result) ==
    [results_getitem(s, result) EXCEPT !.results[result] =
        Append(@, [row |-> row, col |-> col, val1 |-> v1, val2 |-> v2])]

\* summary.set_header_values(header_values)
set_header_values(s, header_values) == [s EXCEPT !.header_values = header_values]

\* the reference engine's is_readonly() and is_engine_readonly(): a
\* TableEnginePyxl on a workbook that can be written
Writable == [is_readonly |-> FALSE, is_engine_readonly |-> FALSE]


-----------------------------------------------------------------------------
(* The validators (table_validator.py, 104-360) *)

EqualValidator_compare(v1, v2) == IF PyEq(v1, v2) THEN "EQUALS" ELSE "DIFFERENT"

TRUE_VALUES ==
    {<<"t", "r", "u", "e">>, <<"=", "t", "r", "u", "e", "(", ")">>,
     <<"w", "a", "h", "r">>, <<"1">>, <<"y", "e", "s">>, <<"j", "a">>}
FALSE_VALUES ==
    {<<"f", "a", "l", "s", "e">>, <<"=", "f", "a", "l", "s", "e", "(", ")">>,
     <<"f", "a", "l", "s", "c", "h">>, <<"0">>, <<"n", "o">>, <<"n", "e", "i", "n">>}
BOOL_VALUES == TRUE_VALUES \cup FALSE_VALUES

\* bool(val) of a number
Truthy(val) == val.c \in {"nan", "inf", "big"} \/ val.n # 0

BoolValidator_normalize(val) ==
    LET OfStr(s) == IF s \in TRUE_VALUES THEN Ret(TRUE, BoolV(TRUE))
                    ELSE IF s \in FALSE_VALUES THEN Ret(TRUE, BoolV(FALSE))
                    ELSE Raise("ValueError")
    IN  IF val.t = "bool" THEN Ret(TRUE, val)
        ELSE IF val.t \in {"int", "float"} THEN Ret(TRUE, BoolV(Truthy(val)))
        ELSE IF val.t = "str" THEN OfStr(Lower(Strip(val.s)))
        ELSE Raise("ValueError")

BoolValidator_compare(v1, v2) ==
    LET Decide(b1, b2) ==
            IF b1.exc # "none" \/ b2.exc # "none" THEN "CORRUPTED"
            ELSE IF PyEq(v1, v2) THEN "EQUALS"
            ELSE IF PyEq(b1.norm, b2.norm) THEN "MATCHING" ELSE "DIFFERENT"
    IN  Decide(BoolValidator_normalize(v1), BoolValidator_normalize(v2))

DatePrecisions == {"day", "hour", "minute", "second"}

DateValidator_normalize(val) ==
    IF val.t = "datetime" THEN Ret(TRUE, val)
    ELSE IF val.t = "str" THEN fromisoformat(Strip(val.s))
    ELSE Raise("ValueError")

\* a seeded fault for C12: every precision compares the days only
DateValidator_compare_days(precision, v1, v2) ==
    LET Decide(d1, d2) ==
            IF d1.exc # "none" \/ d2.exc # "none" THEN "CORRUPTED"
            ELSE IF PyEq(d1.norm, d2.norm)
                 THEN (IF PyEq(v1, v2) THEN "EQUALS" ELSE "MATCHING")
            ELSE IF d1.norm.n = d2.norm.n THEN "ALMOST" ELSE "DIFFERENT"
    IN  Decide(DateValidator_normalize(v1), DateValidator_normalize(v2))

DateValidator_compare(precision, v1, v2) ==
    LET Match(a, b) ==
            CASE precision = "day" -> a.n = b.n
              [] precision = "hour" -> a.n = b.n /\ a.m \div 3600 = b.m \div 3600
              [] precision = "minute" -> a.n = b.n /\ a.m \div 60 = b.m \div 60
              [] precision = "second" -> a.n = b.n /\ a.m = b.m
        Decide(d1, d2) ==
            IF d1.exc # "none" \/ d2.exc # "none" THEN "CORRUPTED"
            ELSE IF PyEq(d1.norm, d2.norm)
                 THEN (IF PyEq(v1, v2) THEN "EQUALS" ELSE "MATCHING")
            \* raise ValueError(f"Unknown precision: ..."), caught below
            ELSE IF precision \notin DatePrecisions THEN "CORRUPTED"
            ELSE IF Match(d1.norm, d2.norm) THEN "ALMOST" ELSE "DIFFERENT"
    IN  Decide(DateValidator_normalize(v1), DateValidator_normalize(v2))

OmittedValidator_compare(v1, v2) == "OMITTED"

IgnoreValidator_compare(v1, v2) == "MATCHING"

IntValidator_compare(v1, v2) ==
    LET Decide(i1, i2) ==
            IF PyEq(v1, v2) /\ SameType(v1, v2) THEN "EQUALS"
            ELSE IF i1.exc # "none" THEN i1.exc
            ELSE IF i2.exc # "none" THEN i2.exc
            ELSE IF i1.like /\ i2.like
                 THEN (IF PyEq(i1.norm, i2.norm) THEN "MATCHING" ELSE "DIFFERENT")
            ELSE "CORRUPTED"
    IN  Decide(is_int_then_normalize(v1), is_int_then_normalize(v2))

NumberValidator_compare(float_precision, v1, v2) ==
    LET Decide(i1, i2, f1, f2) ==
            IF PyEq(v1, v2) /\ SameType(v1, v2) THEN "EQUALS"
            ELSE IF i1.exc # "none" THEN i1.exc
            ELSE IF i2.exc # "none" THEN i2.exc
            ELSE IF i1.like /\ i2.like
                 THEN (IF PyEq(i1.norm, i2.norm) THEN "MATCHING" ELSE "DIFFERENT")
            ELSE IF f1.exc # "none" THEN f1.exc
            ELSE IF f2.exc # "none" THEN f2.exc
            ELSE IF f1.like /\ f2.like
                 THEN IF PyEq(f1.norm, f2.norm) THEN "MATCHING"
                      ELSE IF PyEq(round(f1.norm, float_precision),
                                   round(f2.norm, float_precision))
                           THEN "ALMOST" ELSE "DIFFERENT"
            ELSE "CORRUPTED"
    IN  Decide(is_int_then_normalize(v1), is_int_then_normalize(v2),
               is_float_then_normalize(v1), is_float_then_normalize(v2))

TolerantFloatValidator_compare(delta_up, delta_down, float_precision, v1, v2) ==
    LET Between(lower, x, upper) == FloatLe(lower, x) /\ FloatLe(x, upper)
        Decide(f1, f2) ==
            IF PyEq(v1, v2) THEN "EQUALS"
            ELSE IF f1.exc # "none" THEN f1.exc
            ELSE IF f2.exc # "none" THEN f2.exc
            ELSE IF f1.like /\ f2.like
                 THEN IF PyEq(f1.norm, f2.norm) THEN "MATCHING"
                      ELSE IF PyEq(round(f1.norm, float_precision),
                                   round(f2.norm, float_precision))
                           THEN "ALMOST"
                      ELSE IF Between(FloatSub(f2.norm, delta_down), f1.norm,
                                      FloatAdd(f2.norm, delta_up))
                           THEN "ACCEPTED" ELSE "DIFFERENT"
            ELSE "CORRUPTED"
    IN  Decide(is_float_then_normalize(v1), is_float_then_normalize(v2))

is_bool_like(val) ==
    IF val.t = "bool" THEN TRUE
    ELSE IF val.t = "str" THEN Lower(Strip(val.s)) \in BOOL_VALUES
    ELSE IF val.t \in {"int", "float"} THEN PyEq(val, IntV(0)) \/ PyEq(val, IntV(1))
    ELSE FALSE

ExcelValueValidator_compare(v1, v2) ==
    LET Decide(d1, d2, n1, n2) ==
            IF PyEq(v1, v2) THEN "EQUALS"
            ELSE IF v1.t = "NoneType" \/ v2.t = "NoneType" THEN "DIFFERENT"
            ELSE IF d1.like /\ d2.like
                 THEN DateValidator_compare("day", d1.norm, d2.norm)
            ELSE IF n1.exc # "none" THEN n1.exc
            ELSE IF n2.exc # "none" THEN n2.exc
            ELSE IF n1.like /\ n2.like
                 THEN NumberValidator_compare(10, n1.norm, n2.norm)
            ELSE IF is_bool_like(v1) /\ is_bool_like(v2)
                 THEN BoolValidator_compare(v1, v2)
            ELSE "DIFFERENT"
    IN  Decide(is_date_then_normalize(v1), is_date_then_normalize(v2),
               is_number_then_normalize(v1), is_number_then_normalize(v2))

-----------------------------------------------------------------------------
(* Validator objects: the class and the constructor arguments *)

Validator(cls, precision, float_precision, delta_up, delta_down) ==
    [cls |-> cls, precision |-> precision, float_precision |-> float_precision,
     delta_up |-> delta_up, delta_down |-> delta_down]

\* None where a validator is expected
NoValidator == Validator("None", "", 0, FloatV(0), FloatV(0))
EqualValidator == Validator("EqualValidator", "", 0, FloatV(0), FloatV(0))
BoolValidator == Validator("BoolValidator", "", 0, FloatV(0), FloatV(0))
DateValidator(precision) == Validator("DateValidator", precision, 0, FloatV(0), FloatV(0))
OmittedValidator == Validator("OmittedValidator", "", 0, FloatV(0), FloatV(0))
IgnoreValidator == Validator("IgnoreValidator", "", 0, FloatV(0), FloatV(0))
IntValidator == Validator("IntValidator", "", 0, FloatV(0), FloatV(0))
NumberValidator(float_precision) ==
    Validator("NumberValidator", "", float_precision, FloatV(0), FloatV(0))
TolerantFloatValidator(delta_up, delta_down, float_precision) ==
    Validator("TolerantFloatValidator", "", float_precision, delta_up, delta_down)
ExcelValueValidator == Validator("ExcelValueValidator", "", 0, FloatV(0), FloatV(0))

\* v.compare(a, b)
Compare(v, a, b) ==
    CASE v.cls = "EqualValidator" -> EqualValidator_compare(a, b)
      [] v.cls = "BoolValidator" -> BoolValidator_compare(a, b)
      [] v.cls = "DateValidator" -> DateValidator_compare(v.precision, a, b)
      [] v.cls = "OmittedValidator" -> OmittedValidator_compare(a, b)
      [] v.cls = "IgnoreValidator" -> IgnoreValidator_compare(a, b)
      [] v.cls = "IntValidator" -> IntValidator_compare(a, b)
      [] v.cls = "NumberValidator" -> NumberValidator_compare(v.float_precision, a, b)
      [] v.cls = "TolerantFloatValidator" ->
            TolerantFloatValidator_compare(v.delta_up, v.delta_down,
                                           v.float_precision, a, b)
      [] v.cls = "ExcelValueValidator" -> ExcelValueValidator_compare(a, b)

-----------------------------------------------------------------------------
(* The values and validators the calls are drawn from *)

\* the float a literal denotes
F(lit) == FloatOfStr(lit)

Values ==
    { NoneV, BoolV(TRUE), IntV(1), IntV(5), BigIntV,
      F(<<"5", ".", "0">>), F(<<"5", ".", "5">>),
      F(<<"5", ".", "1", "2", "3">>), F(<<"5", ".", "1", "2", "4">>),
      F(<<"4", ".", "9", "9">>), F(<<"4", ".", "9", "8">>), F(<<"5", ".", "0", "2">>),
      NaN, Inf(1),
      StrV(<<"5">>), StrV(<<" ", "5", " ">>), StrV(<<"5", ".", "0">>),
      StrV(<<"5", ",", "5">>), StrV(<<"€", "5">>), StrV(<<"1", "e", "9", "9", "9">>),
      StrV(<<"a", "b", "c">>), StrV(<<"J", "a">>),
      StrV(<<"2", "0", "2", "3", "-", "1", "0", "-", "0", "1">>),
      DateTimeV(20231001, 0, 0), DateV(20231001), ObjV(1),
      BoolV(FALSE), StrV(<<"y", "e", "s">>), StrV(<<"n", "o">>),
      StrV(<<"2", "0", "2", "3", "-", "1", "0", "-", "0", "1", "T", "1", "0", ":", "3", "0">>),
      DateTimeV(20231001, 37800, 0), DateTimeV(20231001, 37815, 0),
      DateTimeV(20231001, 37815, 500000), DateTimeV(20231001, 38700, 0),
      DateTimeV(20231002, 0, 0) }

FloatPrecisions == {0, 2, 10}

TolerantFloatValidators ==
    { TolerantFloatValidator(F(<<"0", ".", "0", "2">>), F(<<"0", ".", "0", "1">>), 2),
      TolerantFloatValidator(F(<<"0", ".", "5">>), F(<<"0", ".", "5">>), 0) }

-----------------------------------------------------------------------------
(* Rows and validator arrays (excel_compare.py, 151-219) *)

\* a Python list, and None where a list is expected
List(items) == [none |-> FALSE, items |-> items]
NoneList == [none |-> TRUE, items |-> <<>>]

\* how a call ends: with a returned value, or with an exception
Returns(value) == [exc |-> "none", value |-> value]
Throws(e) == [exc |-> e, value |-> <<>>]

\* validator_arr[c] and the conditional expression around v.compare, for the
\* column with 0-based index c - 1
compare_a_cell(row1_, row2_, arr, c) ==
    IF arr.none THEN "TypeError"
    ELSE IF c > Len(arr.items) THEN "IndexError"
    ELSE IF arr.items[c].cls = "None" THEN "OMITTED"
    ELSE Compare(arr.items[c], row1_[c], row2_[c])

\* a seeded fault for C1: LONGER and SHORTER interchanged
extend_differences_swapped(len1, len2) ==
    IF len1 > len2 THEN [k \in 1..(len1 - len2) |-> "SHORTER"]
    ELSE IF len2 > len1 THEN [k \in 1..(len2 - len1) |-> "LONGER"]
    ELSE <<>>

\* what the row length difference appends to differences
extend_differences(len1, len2) ==
    IF len1 > len2 THEN [k \in 1..(len1 - len2) |-> "LONGER"]
    ELSE IF len2 > len1 THEN [k \in 1..(len2 - len1) |-> "SHORTER"]
    ELSE <<>>

compare_a_row(row1_, row2_, arr) ==
    LET \* the loop ends at the first column that raises
        Finish(cells, failed) ==
            IF failed # {}
            THEN Throws(cells[CHOOSE c \in failed : \A d \in failed : c <= d])
            ELSE Returns(cells \o extend_differences(Len(row1_), Len(row2_)))
        Loop(cells) == Finish(cells, {c \in DOMAIN cells : cells[c] \in Exceptions})
        Zip(n) == Loop([c \in 1..n |-> compare_a_cell(row1_, row2_, arr, c)])
    IN  Zip(IF Len(row1_) < Len(row2_) THEN Len(row1_) ELSE Len(row2_))

\* calculate_validator_array(eng2, validator_arr, None, default_validator)
calculate_validator_array(eng2, arr, default_validator) ==
    IF arr.none THEN List([c \in 1..eng2.max_col |-> default_validator])
    ELSE IF Len(arr.items) < eng2.max_col
         THEN List(arr.items \o [c \in 1..(eng2.max_col - Len(arr.items)) |-> default_validator])
    ELSE arr

\* a seeded fault for C2: row 1 compared by a tolerant validator
validator_arr_nur_int(eng2) == calculate_validator_array(eng2, NoneList, IntValidator)

\* the array compare_sheets_by_enum compares row 1 with
validator_arr_nur_str(eng2) == calculate_validator_array(eng2, NoneList, EqualValidator)

-----------------------------------------------------------------------------
(* Tables and enumerators (excel_table_engine.py, 198-329) *)

\* TableRowEnumerator(engine)
TableRowEnumerator(engine) == [current |-> 1, max_row |-> Len(engine.rows)]

\* next(enum): the enumerator afterwards and the (index, row) it gave, or
\* StopIteration
TableRowEnumerator_next(enum, engine) ==
    IF enum.current > enum.max_row
    THEN [stop |-> TRUE, enum |-> enum, index |-> 0, row |-> <<>>]
    ELSE [stop |-> FALSE, enum |-> [enum EXCEPT !.current = @ + 1],
          index |-> enum.current, row |-> engine.rows[enum.current]]

\* bool(consumer): None is false, an object is true unless its class says
\* otherwise; a consumer that is a list of the calls it received is false
\* while that list is empty
Truthy_consumer(cons, log) ==
    cons = "recorder" \/ (cons = "list_recorder" /\ log # <<>>)

\* the arguments of consumer.diff(r, index1, row1, index2, row2, differences)
consumer_diff(r_, index1, row1_, index2, row2_, d) ==
    [r |-> r_, index1 |-> index1, row1 |-> row1_, index2 |-> index2, row2 |-> row2_,
     differences |-> d]

\* the tuple (index1, row1, index2, row2, differences) of the bulk list
all_differences_tuple(index1, row1_, index2, row2_, d) ==
    [index1 |-> index1, row1 |-> row1_, index2 |-> index2, row2 |-> row2_,
     differences |-> d]

\* one call of compare_next: the enumerators, the bulk list and the
\* consumer's record afterwards, and the exception it raised, if any
compare_next(r_, e1, e2, arr, cons, alldiff, log) ==
    LET Deliver(index1, row1_, index2, row2_, d) ==
            [enum1 |-> e1, enum2 |-> e2,
             exc |->
                IF d.exc # "none" THEN d.exc
                \* None.append
                ELSE IF ~Truthy_consumer(cons, log) /\ alldiff.none THEN "AttributeError"
                ELSE "none",
             all_differences |->
                IF d.exc = "none" /\ ~Truthy_consumer(cons, log) /\ ~alldiff.none
                THEN List(Append(alldiff.items,
                                 all_differences_tuple(index1, row1_, index2, row2_,
                                                       d.value)))
                ELSE alldiff,
             calls |->
                IF d.exc = "none" /\ Truthy_consumer(cons, log)
                THEN Append(log, consumer_diff(r_, index1, row1_, index2, row2_, d.value))
                ELSE log]
        Pair(index1, row1_, index2, row2_) ==
            Deliver(index1, row1_, index2, row2_, compare_a_row(row1_, row2_, arr))
        Fetch(n1, n2) ==
            [Pair(IF n1.stop THEN -1 ELSE n1.index, n1.row,
                  IF n2.stop THEN -1 ELSE n2.index, n2.row)
             EXCEPT !.enum1 = n1.enum, !.enum2 = n2.enum]
    IN  Fetch(TableRowEnumerator_next(e1, tab1), TableRowEnumerator_next(e2, tab2))

-----------------------------------------------------------------------------
(* The rows, tables and validator arrays the calls are drawn from *)

CellValues == {IntV(5), StrV(<<"5">>), NaN}

Rows == UNION {[1..k -> CellValues] : k \in 0..MaxCols}

ValidatorEntries == {NoValidator, EqualValidator, IntValidator}

ValidatorArrays ==
    {NoneList} \cup {List(s) : s \in UNION {[1..k -> ValidatorEntries] : k \in 0..MaxCols}}

\* a table of n rows and w columns holding a and b in a chequered pattern
Table(n, w, a, b) ==
    [max_col |-> w,
     rows |-> [i \in 1..n |-> [c \in 1..w |-> IF (i + c) % 2 = 0 THEN a ELSE b]]]

EmptyTable == Table(0, 0, NoneV, NoneV)

MeasuredTables ==
    {EmptyTable} \cup
    {Table(n, w, p[1], p[2]) :
        n \in 1..MaxRows, w \in 1..MaxCols,
        p \in {<<IntV(5), StrV(<<"5">>)>>, <<StrV(<<"5">>), IntV(5)>>, <<IntV(5), NaN>>}}

ReferenceTables ==
    {EmptyTable} \cup
    {Table(n, w, p[1], p[2]) :
        n \in 1..MaxRows, w \in 1..MaxCols,
        p \in {<<IntV(5), StrV(<<"5">>)>>, <<IntV(5), IntV(5)>>}}

-----------------------------------------------------------------------------
(* ValidatorRegistry (table_validator_registry.py, 18-96); a dict is the    *)
(* list of its [key, value] items in insertion order                        *)

\* ValidatorRegistry() after set_default(default)
ValidatorRegistry(default) ==
    [none |-> FALSE, by_column_name |-> <<>>, by_column_index |-> <<>>,
     default_validator |-> default]

\* registry = None
NoRegistry == [ValidatorRegistry(NoValidator) EXCEPT !.none = TRUE]

\* a seeded fault for C21: the index looked up before the name
get_validator_index_first(reg, column_name, column_index) ==
    LET Named == {k \in DOMAIN reg.by_column_name :
                     PyEq(reg.by_column_name[k].key, column_name)}
        Indexed == {k \in DOMAIN reg.by_column_index :
                       reg.by_column_index[k].key = column_index}
    IN  IF Indexed # {} THEN reg.by_column_index[CHOOSE k \in Indexed : TRUE].value
        ELSE IF Named # {} THEN reg.by_column_name[CHOOSE k \in Named : TRUE].value
        ELSE reg.default_validator

\* registry.get_validator(column_name, column_index)
get_validator(reg, column_name, column_index) ==
    LET Named == {k \in DOMAIN reg.by_column_name :
                     PyEq(reg.by_column_name[k].key, column_name)}
        Indexed == {k \in DOMAIN reg.by_column_index :
                       reg.by_column_index[k].key = column_index}
    IN  IF Named # {} THEN reg.by_column_name[CHOOSE k \in Named : TRUE].value
        ELSE IF Indexed # {} THEN reg.by_column_index[CHOOSE k \in Indexed : TRUE].value
        ELSE reg.default_validator

\* a seeded fault for C23: the loop over by_column_index left out
resolve_by_index_skipped(reg, validators, n) == validators

\* the second loop of resolve_validators over the first n items of
\* by_column_index (indexes are not negative)
RECURSIVE resolve_by_index(_, _, _)
resolve_by_index(reg, validators, n) ==
    LET Put(before, index, v) ==
            IF index < Len(before)
            THEN [before EXCEPT ![index + 1] = v]
            ELSE Append(before \o [k \in 1..(index - Len(before)) |->
                                      reg.default_validator], v)
    IN  IF n = 0 THEN validators
        ELSE Put(resolve_by_index(reg, validators, n - 1),
                 reg.by_column_index[n].key, reg.by_column_index[n].value)

\* registry.resolve_validators(header_row, max_col); validators[index] of
\* the first loop raises IndexError on a header row longer than max_col
resolve_validators(reg, header_row, max_col) ==
    IF Len(header_row) > max_col THEN Throws("IndexError")
    ELSE Returns(List(resolve_by_index(reg,
            [c \in 1..max_col |->
                IF c <= Len(header_row) THEN get_validator(reg, header_row[c], c - 1)
                ELSE reg.default_validator],
            Len(reg.by_column_index))))

-----------------------------------------------------------------------------
(* Variables a specification does not use rest at these values *)

ValIdle ==
    /\ val1 = NoneV /\ val2 = NoneV /\ validator = NoValidator
    /\ outcome = "none" /\ vpc = "off"

RowIdle ==
    /\ row1 = <<>> /\ row2 = <<>> /\ differences = Throws("none") /\ rpc = "off"

Pending == Throws("pending")

RunIdle ==
    /\ tab1 = EmptyTable /\ tab2 = EmptyTable /\ consumer = "None"
    /\ enum1 = TableRowEnumerator(EmptyTable)
    /\ enum2 = TableRowEnumerator(EmptyTable)
    /\ max_rows = 0 /\ r = 0 /\ all_differences = NoneList /\ calls = <<>>
    /\ returned = [bulk |-> Pending, streaming |-> Pending] /\ pc = "off"

\* no operation of the differator has been called
NoEntry == [op |-> "none", has_header |-> FALSE, registry |-> NoRegistry]

DiffIdle ==
    /\ formats2 = <<>> /\ readonly2 = Writable /\ start_max_cols2 = 0
    /\ summary = NoSummary /\ entry = NoEntry

\* no method has been called
NoCall == [op |-> "none"]

ApiIdle ==
    /\ validator_registry = NoRegistry /\ adds = <<>> /\ first = NoCall /\ last = NoCall

-----------------------------------------------------------------------------
(* SpecVal: one call of one validator's compare *)

InitVal ==
    /\ val1 \in Values /\ val2 \in Values
    /\ validator = NoValidator /\ outcome = "none" /\ vpc = "ready"
    /\ RowIdle /\ validator_arr = NoneList /\ RunIdle /\ DiffIdle /\ ApiIdle

\* validator v was called with (val1, val2) and ended with result
Called(v, result) ==
    /\ vpc = "ready"
    /\ validator' = v
    /\ outcome' = result
    /\ vpc' = "done"
    /\ UNCHANGED <<val1, val2, rowVars, validator_arr, runVars, diffVars, apiVars>>

EqualCompare == Called(EqualValidator, EqualValidator_compare(val1, val2))
BoolCompare == Called(BoolValidator, BoolValidator_compare(val1, val2))
DateCompare ==
    \E p \in DatePrecisions \cup {"week"} :
        Called(DateValidator(p), DateValidator_compare(p, val1, val2))
OmittedCompare == Called(OmittedValidator, OmittedValidator_compare(val1, val2))
IgnoreCompare == Called(IgnoreValidator, IgnoreValidator_compare(val1, val2))
IntCompare == Called(IntValidator, IntValidator_compare(val1, val2))
NumberCompare ==
    \E p \in FloatPrecisions :
        Called(NumberValidator(p), NumberValidator_compare(p, val1, val2))
TolerantFloatCompare ==
    \E v \in TolerantFloatValidators :
        Called(v, TolerantFloatValidator_compare(v.delta_up, v.delta_down,
                                                 v.float_precision, val1, val2))
ExcelValueCompare == Called(ExcelValueValidator, ExcelValueValidator_compare(val1, val2))

NextVal ==
    \/ EqualCompare \/ BoolCompare \/ DateCompare \/ OmittedCompare
    \/ IgnoreCompare \/ IntCompare \/ NumberCompare \/ TolerantFloatCompare
    \/ ExcelValueCompare

SpecVal == InitVal /\ [][NextVal]_vars

-----------------------------------------------------------------------------
(* SpecRow: one call of compare_a_row *)

InitRow ==
    /\ row1 \in Rows /\ row2 \in Rows /\ validator_arr \in ValidatorArrays
    /\ differences = Throws("none") /\ rpc = "ready"
    /\ ValIdle /\ RunIdle /\ DiffIdle /\ ApiIdle

CompareARow ==
    /\ rpc = "ready"
    /\ differences' = compare_a_row(row1, row2, validator_arr)
    /\ rpc' = "done"
    /\ UNCHANGED <<row1, row2, validator_arr, valVars, runVars, diffVars, apiVars>>

NextRow == CompareARow

SpecRow == InitRow /\ [][NextRow]_vars

-----------------------------------------------------------------------------
(* Spec: compare_sheets_by_enum over the same tables and validators, first *)
(* in bulk mode (consumer None), then in streaming mode with a consumer    *)
(* whose diff only records its arguments: "recorder" is a plain object     *)
(* that keeps the calls in an attribute, "list_recorder" is itself the     *)
(* list of the calls (a subclass of list)                                  *)

Recorders == {"recorder", "list_recorder"}

Init ==
    /\ tab1 \in MeasuredTables /\ tab2 \in ReferenceTables
    /\ validator_arr \in ValidatorArrays
    /\ consumer = "None"
    /\ enum1 = TableRowEnumerator(tab1) /\ enum2 = TableRowEnumerator(tab2)
    /\ max_rows = 0 /\ r = 0 /\ all_differences = NoneList /\ calls = <<>>
    /\ returned = [bulk |-> Pending, streaming |-> Pending]
    /\ pc = "idle"
    /\ ValIdle /\ RowIdle /\ DiffIdle /\ ApiIdle

Mode(cons) == IF cons = "None" THEN "bulk" ELSE "streaming"

\* the state after a call of compare_next that gave result res
AfterCompareNext(cons, next_r, res) ==
    /\ enum1' = res.enum1 /\ enum2' = res.enum2
    /\ all_differences' = res.all_differences
    /\ calls' = res.calls
    /\ r' = next_r
    /\ IF res.exc = "none"
       THEN pc' = "loop" /\ UNCHANGED returned
       ELSE /\ pc' = "raised"
            /\ returned' = [returned EXCEPT ![Mode(cons)] = Throws(res.exc)]

\* compare_sheets_by_enum up to its loop, on fresh enumerators: max_rows,
\* all_differences, the strict-equality array and compare_next(1, ...)
Enter ==
    \E cons \in {"None"} \cup Recorders :
        /\ \/ pc = "idle" /\ cons = "None"
           \/ pc \in {"returned", "raised"} /\ consumer = "None" /\ cons \in Recorders
        /\ consumer' = cons
        /\ max_rows' = IF Len(tab1.rows) > Len(tab2.rows)
                       THEN Len(tab1.rows) ELSE Len(tab2.rows)
        /\ AfterCompareNext(cons, 2,
              compare_next(1, TableRowEnumerator(tab1), TableRowEnumerator(tab2),
                           validator_arr_nur_str(tab2), cons,
                           \* [] if consumer is None else None
                           IF cons = "None" THEN List(<<>>) ELSE NoneList,
                           calls))
        /\ UNCHANGED <<tab1, tab2, validator_arr, valVars, rowVars, diffVars, apiVars>>

\* one pass of the loop over range(2, max_rows + 1)
CompareNextRow ==
    /\ pc = "loop" /\ r <= max_rows
    /\ AfterCompareNext(consumer, r + 1,
          compare_next(r, enum1, enum2, validator_arr, consumer, all_differences, calls))
    /\ UNCHANGED <<tab1, tab2, validator_arr, consumer, max_rows, valVars, rowVars,
                   diffVars, apiVars>>

\* return all_differences
Return ==
    /\ pc = "loop" /\ r > max_rows
    /\ returned' = [returned EXCEPT ![Mode(consumer)] = Returns(all_differences)]
    /\ pc' = "returned"
    /\ UNCHANGED <<tab1, tab2, validator_arr, consumer, enum1, enum2, max_rows, r,
                   all_differences, calls, valVars, rowVars, diffVars, apiVars>>

Next == Enter \/ CompareNextRow \/ Return

Spec == Init /\ [][Next]_vars

-----------------------------------------------------------------------------
(* DiffConsumer (excel_differator.py, 68-149) on a reference table held by  *)
(* a TableEnginePyxl: every row is read max_col wide, and a cell written    *)
(* beyond max_col widens the table                                          *)

\* the fill colour of a cell that was never filled (get_cell_format)
NoFill == "00000000"

\* the fill colours of a table as loaded
FormatsOf(engine) ==
    [i \in 1..Len(engine.rows) |-> [c \in 1..engine.max_col |-> NoFill]]

\* eng2.set_row_formats(row, formats) for formats carrying fill colours
set_row_formats(fmts, row, formats) ==
    [fmts EXCEPT ![row] =
        [c \in 1..(IF Len(@) > Len(formats) THEN Len(@) ELSE Len(formats)) |->
            IF c <= Len(formats) THEN formats[c] ELSE @[c]]]

\* eng2.set_cell_value(row, max_col + 1, value): the table one column wider
set_cell_value(engine, row, value) ==
    [max_col |-> engine.max_col + 1,
     rows |-> [i \in 1..Len(engine.rows) |->
                 Append(engine.rows[i], IF i = row THEN value ELSE NoneV)]]

\* a seeded fault for C18: the delivered outcome kept beyond the bound
delivered_result(start, c, result) == result

\* the outcome diff goes on with for the column with 0-based index c - 1
effective_result(start, c, result) ==
    IF c - 1 >= start THEN "LONGER" ELSE result

\* the list of the outcomes diff goes on with
effective_results(start, d) ==
    [c \in 1..Len(d) |-> effective_result(start, c, d[c])]

\* row[c] if c < len(row) else None, for the 1-based column c
cell_or_None(row, c) == IF c <= Len(row) THEN row[c] ELSE NoneV

\* what the loop of diff has added to the summary after its first n columns
RECURSIVE diff_summary(_, _, _, _)
diff_summary(s, call, results, n) ==
    LET Step(before) ==
            IF ~s.none /\ foul(results[n])
            THEN ComparisonSummary_add(before, call.r, n,
                                       cell_or_None(call.row1, n),
                                       cell_or_None(call.row2, n), results[n])
            ELSE before
    IN  IF n = 0 THEN s ELSE Step(diff_summary(s, call, results, n - 1))

\* fg_ref, fg_mess = result.get_cell_colors(): formats_ref takes the first
\* colour of the pair, formats_mess the second
formats_ref(results) == [c \in 1..Len(results) |-> get_cell_colors(results[c])[1]]
formats_mess(results) == [c \in 1..Len(results) |-> get_cell_colors(results[c])[2]]

\* one call of diff: the summary and the fill colours afterwards, and how
\* the call ended; self.enum1.get_row_formats() is no method of
\* TableRowEnumerator, so the branch that inserts the measured row raises
\* before anything is inserted
DiffConsumer_diff(start, s, fmts, call) ==
    LET Finish(results) ==
            [summary |-> diff_summary(s, call, results, Len(results)),
             formats2 |-> IF call.index2 > 0
                          THEN set_row_formats(fmts, call.index2, formats_ref(results))
                          ELSE fmts,
             exc |-> IF (\E c \in DOMAIN results : ~ok(results[c])) /\ call.row1 # <<>>
                     THEN "AttributeError" ELSE "none"]
    IN  Finish(effective_results(start, call.differences))

\* compare_next(r, enum1, enum2, validator_arr, consumer, None) with the
\* DiffConsumer as consumer: the enumerators, the summary and the fill
\* colours afterwards, the call of diff that was made, and the exception
diff_next(r_, e1, e2, arr, start, s, fmts) ==
    LET Raised(res) ==
            [enum1 |-> res.enum1, enum2 |-> res.enum2, exc |-> res.exc,
             summary |-> s, formats2 |-> fmts, calls |-> <<>>]
        Consumed(res, out) ==
            [enum1 |-> res.enum1, enum2 |-> res.enum2, exc |-> out.exc,
             summary |-> out.summary, formats2 |-> out.formats2, calls |-> res.calls]
        Consume(res) ==
            IF res.exc # "none" THEN Raised(res)
            ELSE Consumed(res, DiffConsumer_diff(start, s, fmts, res.calls[1]))
    IN  Consume(compare_next(r_, e1, e2, arr, "recorder", NoneList, <<>>))

-----------------------------------------------------------------------------
(* SpecDiff: a measured and a reference table handed to the differator,     *)
(* either to differentiate_sheets_by_ws, or to a DiffConsumer that          *)
(* compare_sheets_by_enum then runs with                                    *)

\* the name every column carries in row 1
ColumnName == StrV(<<"a", "b", "c">>)

\* a table of a header row and n - 1 chequered rows
Sheet(n, w, a, b) ==
    [max_col |-> w,
     rows |-> <<[c \in 1..w |-> ColumnName]>> \o Table(n - 1, w, a, b).rows]

DiffMeasuredTables ==
    {EmptyTable} \cup
    {Sheet(n, w, p[1], p[2]) :
        n \in 1..(MaxRows + 1), w \in 1..MaxCols,
        p \in {<<IntV(5), StrV(<<"5">>)>>,
               <<F(<<"5", ".", "1", "2", "3">>), F(<<"5", ".", "5">>)>>}}

DiffReferenceTables ==
    {Sheet(n, w, IntV(5), IntV(5)) : n \in 1..(MaxRows + 1), w \in 1..MaxCols}

\* one validator for every column the run can meet
DiffValidatorArrays ==
    {List([c \in 1..(MaxCols + 1) |-> v]) :
        v \in {NoValidator, EqualValidator, IntValidator, NumberValidator(0),
               TolerantFloatValidator(F(<<"0", ".", "5">>), F(<<"0", ".", "5">>), 0)}}

\* a summary that holds a cell of an earlier run
UsedSummary ==
    ComparisonSummary_add(ComparisonSummary, 2, 1, IntV(1), IntV(5), "DIFFERENT")

\* a TableEnginePyxl on a workbook that can be written or on a read-only
\* one, and a TableEnginePyexcel
Engines ==
    {Writable, [is_readonly |-> TRUE, is_engine_readonly |-> FALSE],
     [is_readonly |-> TRUE, is_engine_readonly |-> TRUE]}

InitDiff ==
    /\ tab1 \in DiffMeasuredTables /\ tab2 \in DiffReferenceTables
    /\ validator_arr \in DiffValidatorArrays
    /\ readonly2 \in Engines
    /\ summary \in {NoSummary, ComparisonSummary, UsedSummary}
    /\ formats2 = FormatsOf(tab2)
    /\ start_max_cols2 = 0 /\ entry = NoEntry
    /\ consumer = "None"
    /\ enum1 = TableRowEnumerator(EmptyTable) /\ enum2 = TableRowEnumerator(EmptyTable)
    /\ max_rows = 0 /\ r = 0 /\ all_differences = NoneList /\ calls = <<>>
    /\ returned = [bulk |-> Pending, streaming |-> Pending]
    /\ pc = "new"
    /\ ValIdle /\ RowIdle /\ ApiIdle

\* a seeded fault for C20: only the engine's own write support checked
refuses_engine_only(eng2) == eng2.is_engine_readonly

\* the checks differentiate_sheets_by_ws starts with: a reference engine that
\* supports no writes, or a read-only worksheet, cannot be colored
refuses_coloring(eng2) == eng2.is_engine_readonly \/ eng2.is_readonly

\* differentiate_sheets_by_ws(eng1, eng2, has_header, registry, summary):
\* compare_sheets_consume_diff hands compare_sheets_by_enum a has_header
\* argument it does not take, so a call that passes the checks of the
\* reference engine ends in that TypeError before any row is compared
differentiate_sheets_by_ws ==
    \E has_header \in BOOLEAN,
       registry \in {NoRegistry, ValidatorRegistry(EqualValidator)} :
        LET Resolved ==
                resolve_validators(registry, tab2.rows[1],
                                   IF tab1.max_col > tab2.max_col
                                   THEN tab1.max_col ELSE tab2.max_col)
            Refused == refuses_coloring(readonly2)
            Ended(exc, reached_summary, reached_consumer) ==
                /\ returned' = [returned EXCEPT !.streaming = Throws(exc)]
                /\ summary' = IF reached_summary /\ ~summary.none
                              THEN set_header_values(summary, tab2.rows[1])
                              ELSE summary
                /\ IF reached_consumer
                   THEN /\ consumer' = "DiffConsumer"
                        /\ enum1' = TableRowEnumerator(tab1)
                        /\ enum2' = TableRowEnumerator(tab2)
                        /\ start_max_cols2' = tab2.max_col
                   ELSE UNCHANGED <<consumer, enum1, enum2, start_max_cols2>>
        IN  /\ pc = "new"
            /\ entry' = [op |-> "differentiate_sheets_by_ws",
                         has_header |-> has_header, registry |-> registry]
            /\ pc' = "raised"
            /\ IF Refused THEN Ended("Exception", FALSE, FALSE)
               \* None.resolve_validators
               ELSE IF registry.none THEN Ended("AttributeError", FALSE, FALSE)
               ELSE IF Resolved.exc # "none" THEN Ended(Resolved.exc, FALSE, FALSE)
               ELSE Ended("TypeError", TRUE, TRUE)
            /\ UNCHANGED <<tab1, tab2, validator_arr, max_rows, r, all_differences,
                           calls, formats2, readonly2, valVars, rowVars, apiVars>>

\* a seeded fault for C27: a consumer made again goes on with the row
\* enumerators of the one before
DiffConsumer_shared_cursor ==
    /\ pc = "new" /\ readonly2 = Writable
    /\ consumer' = "DiffConsumer"
    /\ enum1' = IF consumer = "DiffConsumer" THEN enum1 ELSE TableRowEnumerator(tab1)
    /\ enum2' = IF consumer = "DiffConsumer" THEN enum2 ELSE TableRowEnumerator(tab2)
    /\ start_max_cols2' = tab2.max_col
    /\ entry' = [NoEntry EXCEPT !.op = "DiffConsumer"]
    /\ pc' = "created"
    /\ UNCHANGED <<tab1, tab2, validator_arr, max_rows, r, all_differences, calls,
                   returned, formats2, readonly2, summary, valVars, rowVars, apiVars>>

\* DiffConsumer(eng1, eng2, summary), on a reference table that can be
\* written
DiffConsumer ==
    /\ pc = "new" /\ readonly2 = Writable
    /\ consumer' = "DiffConsumer"
    /\ enum1' = TableRowEnumerator(tab1) /\ enum2' = TableRowEnumerator(tab2)
    /\ start_max_cols2' = tab2.max_col
    /\ entry' = [NoEntry EXCEPT !.op = "DiffConsumer"]
    /\ pc' = "created"
    /\ UNCHANGED <<tab1, tab2, validator_arr, max_rows, r, all_differences, calls,
                   returned, formats2, readonly2, summary, valVars, rowVars, apiVars>>

\* eng2.set_cell_value(row, max_col + 1, 5) by the consumer's owner before
\* the run: the reference table grows by a column
SetCellValue ==
    \E row \in 1..Len(tab2.rows) :
        /\ pc = "created" /\ tab2.max_col = start_max_cols2
        /\ tab2' = set_cell_value(tab2, row, IntV(5))
        /\ formats2' = [i \in DOMAIN formats2 |-> Append(formats2[i], NoFill)]
        /\ UNCHANGED <<tab1, validator_arr, consumer, enum1, enum2, max_rows, r,
                       all_differences, calls, returned, pc, readonly2,
                       start_max_cols2, summary, entry, valVars, rowVars, apiVars>>

\* the worksheet once every cell that has a format exists: ws.cell(row, col)
\* of set_cell_format makes a cell that is missing, and max_column is the
\* last column with a cell
with_cells(engine, fmts) ==
    LET Width(w) == [max_col |-> w,
                     rows |-> [i \in DOMAIN engine.rows |->
                                 [c \in 1..w |-> IF c <= Len(engine.rows[i])
                                                 THEN engine.rows[i][c] ELSE NoneV]]]
        Widest == {Len(fmts[i]) : i \in DOMAIN fmts} \cup {engine.max_col}
    IN  Width(CHOOSE w \in Widest : \A v \in Widest : v <= w)

\* the state after a call of compare_next that gave result res
AfterDiffNext(next_r, res) ==
    /\ enum1' = res.enum1 /\ enum2' = res.enum2
    /\ summary' = res.summary /\ formats2' = res.formats2
    /\ tab2' = with_cells(tab2, res.formats2)
    /\ calls' = calls \o res.calls
    /\ r' = next_r
    /\ IF res.exc = "none"
       THEN pc' = "loop" /\ UNCHANGED returned
       ELSE /\ pc' = "raised"
            /\ returned' = [returned EXCEPT !.streaming = Throws(res.exc)]

\* compare_sheets_by_enum(dc.enum1, dc.enum2, validator_arr, dc) up to its
\* loop
DiffEnter ==
    /\ pc = "created"
    /\ max_rows' = IF enum1.max_row > enum2.max_row THEN enum1.max_row ELSE enum2.max_row
    /\ AfterDiffNext(2, diff_next(1, enum1, enum2, validator_arr_nur_str(tab2),
                                  start_max_cols2, summary, formats2))
    /\ UNCHANGED <<tab1, validator_arr, consumer, all_differences, readonly2,
                   start_max_cols2, entry, valVars, rowVars, apiVars>>

\* one pass of its loop over range(2, max_rows + 1)
DiffNextRow ==
    /\ pc = "loop" /\ r <= max_rows
    /\ AfterDiffNext(r + 1, diff_next(r, enum1, enum2, validator_arr,
                                      start_max_cols2, summary, formats2))
    /\ UNCHANGED <<tab1, validator_arr, consumer, max_rows, all_differences,
                   readonly2, start_max_cols2, entry, valVars, rowVars, apiVars>>

\* return all_differences, which is None
DiffReturn ==
    /\ pc = "loop" /\ r > max_rows
    /\ returned' = [returned EXCEPT !.streaming = Returns(all_differences)]
    /\ pc' = "returned"
    /\ UNCHANGED <<tab1, tab2, validator_arr, consumer, enum1, enum2, max_rows, r,
                   all_differences, calls, diffVars, valVars, rowVars, apiVars>>

NextDiff ==
    \/ differentiate_sheets_by_ws \/ DiffConsumer \/ SetCellValue
    \/ DiffEnter \/ DiffNextRow \/ DiffReturn

SpecDiff == InitDiff /\ [][NextDiff]_vars

-----------------------------------------------------------------------------
(* SpecReg: a ValidatorRegistry that is registered to and looked up in *)

\* d[key] = value on a dict kept as the list of its items in insertion order
dict_set(d, key, value) ==
    LET Held == {k \in DOMAIN d : d[k].key = key}
    IN  IF Held = {} THEN Append(d, [key |-> key, value |-> value])
        ELSE [k \in DOMAIN d |-> IF k \in Held THEN [key |-> key, value |-> value]
                                 ELSE d[k]]

\* the column names of the header rows and of the registrations
ColumnNames == {StrV(<<"a">>), StrV(<<"b">>)}

\* the header rows handed to resolve_validators
HeaderRows == UNION {[1..n -> ColumnNames] : n \in 0..MaxCols}

InitReg ==
    /\ validator_registry = ValidatorRegistry(NoValidator)
    /\ adds = <<>> /\ first = NoCall /\ last = NoCall
    /\ ValIdle /\ RowIdle /\ validator_arr = NoneList /\ RunIdle /\ DiffIdle

\* registry.register_by_name(column_name, IntValidator())
register_by_name ==
    \E column_name \in ColumnNames :
        /\ validator_registry' =
              [validator_registry EXCEPT
                  !.by_column_name = dict_set(@, column_name, IntValidator)]
        /\ last' = [op |-> "register_by_name"]
        /\ UNCHANGED <<valVars, rowVars, validator_arr, runVars, diffVars, adds, first>>

\* registry.register_by_index(column_index, NumberValidator(0))
register_by_index ==
    \E column_index \in 0..MaxCols :
        /\ validator_registry' =
              [validator_registry EXCEPT
                  !.by_column_index = dict_set(@, column_index, NumberValidator(0))]
        /\ last' = [op |-> "register_by_index"]
        /\ UNCHANGED <<valVars, rowVars, validator_arr, runVars, diffVars, adds, first>>

\* registry.set_default(EqualValidator())
set_default ==
    /\ validator_registry' =
          [validator_registry EXCEPT !.default_validator = EqualValidator]
    /\ last' = [op |-> "set_default"]
    /\ UNCHANGED <<valVars, rowVars, validator_arr, runVars, diffVars, adds, first>>

\* registry.get_validator(column_name, column_index); a column_name of None
\* and a column_index of None (written -1) are registered nowhere
GetValidator ==
    \E column_name \in ColumnNames \cup {NoneV},
       column_index \in (0..MaxCols) \cup {-1} :
        /\ last' = [op |-> "get_validator", column_name |-> column_name,
                    column_index |-> column_index,
                    res |-> get_validator(validator_registry, column_name,
                                          column_index)]
        /\ UNCHANGED <<valVars, rowVars, validator_arr, runVars, diffVars,
                       validator_registry, adds, first>>

\* registry.resolve_validators(header_row, max_col); max_col is 1 when it is
\* not given
ResolveValidators ==
    \E header_row \in HeaderRows, max_col \in 0..(MaxCols + 1) :
        /\ last' = [op |-> "resolve_validators", header_row |-> header_row,
                    max_col |-> max_col,
                    res |-> resolve_validators(validator_registry, header_row,
                                               max_col)]
        /\ UNCHANGED <<valVars, rowVars, validator_arr, runVars, diffVars,
                       validator_registry, adds, first>>

NextReg ==
    \/ register_by_name \/ register_by_index \/ set_default
    \/ GetValidator \/ ResolveValidators

SpecReg == InitReg /\ [][NextReg]_vars

-----------------------------------------------------------------------------
(* SpecArr: calculate_validator_array with a dictionary of overrides *)

\* row2.index(key), 1-based; 0 for the ValueError of a value not in the list
list_index(row, key) ==
    IF \E c \in DOMAIN row : PyEq(row[c], key)
    THEN CHOOSE c \in DOMAIN row :
            PyEq(row[c], key) /\ \A d \in 1..(c - 1) : ~PyEq(row[d], key)
    ELSE 0

\* a seeded fault for C24: index taken as -1 when the name is not found, as
\* str.find gives it
apply_override_find(eng2, arr, item) ==
    LET row2_ == IF eng2.rows = <<>> THEN <<>> ELSE eng2.rows[1]
        Put(c) == [arr EXCEPT ![IF c = 0 THEN Len(arr) ELSE c] = item.value]
    IN  IF item.key.t = "int"
        THEN IF item.key.n < eng2.max_col
             THEN [arr EXCEPT ![item.key.n + 1] = item.value] ELSE arr
        ELSE IF arr = <<>> THEN arr
        ELSE Put(list_index(row2_, item.key))

\* one pass of the loop over validator_dict.items(): an index below max_cols
\* or the name of a column of row 1 takes the value; a name that is not
\* found passes
apply_override(eng2, arr, item) ==
    LET row2_ == IF eng2.rows = <<>> THEN <<>> ELSE eng2.rows[1]
        Put(c) == IF c = 0 THEN arr ELSE [arr EXCEPT ![c] = item.value]
    IN  IF item.key.t = "int"
        THEN IF item.key.n < eng2.max_col
             THEN [arr EXCEPT ![item.key.n + 1] = item.value] ELSE arr
        ELSE Put(list_index(row2_, item.key))

\* the loop over the first n items of validator_dict
RECURSIVE override_validators(_, _, _, _)
override_validators(eng2, arr, validator_dict, n) ==
    IF n = 0 THEN arr
    ELSE apply_override(eng2, override_validators(eng2, arr, validator_dict, n - 1),
                        validator_dict[n])

\* calculate_validator_array(eng2, validator_arr, validator_dict,
\* default_validator)
calculate_validator_array_dict(eng2, arr, validator_dict, default_validator) ==
    List(override_validators(eng2,
            calculate_validator_array(eng2, arr, default_validator).items,
            validator_dict, Len(validator_dict)))

\* reference tables of a header row
HeaderTables ==
    {[max_col |-> Len(h), rows |-> IF h = <<>> THEN <<>> ELSE <<h>>] : h \in HeaderRows}

\* the keys of validator_dict: column names, of which not every header row
\* has each, and column indexes, the last of them beyond every table
DictKeys == ColumnNames \cup {IntV(i) : i \in 0..MaxCols}

\* validator_dict: up to two items, a name with an IntValidator and an index
\* with a NumberValidator
ValidatorDicts ==
    LET Item(key) == [key |-> key,
                      value |-> IF key.t = "int" THEN NumberValidator(0)
                                ELSE IntValidator]
    IN  {<<>>} \cup {<<Item(k)>> : k \in DictKeys}
        \cup {<<Item(k[1]), Item(k[2])>> :
                 k \in {p \in DictKeys \X DictKeys : p[1] # p[2]}}

InitArr ==
    /\ tab2 \in HeaderTables
    /\ validator_arr \in
          {NoneList} \cup {List([c \in 1..k |-> BoolValidator]) : k \in 0..(MaxCols + 1)}
    /\ tab1 = EmptyTable /\ consumer = "None"
    /\ enum1 = TableRowEnumerator(EmptyTable)
    /\ enum2 = TableRowEnumerator(EmptyTable)
    /\ max_rows = 0 /\ r = 0 /\ all_differences = NoneList /\ calls = <<>>
    /\ returned = [bulk |-> Pending, streaming |-> Pending] /\ pc = "off"
    /\ ValIdle /\ RowIdle /\ DiffIdle /\ ApiIdle

\* calculate_validator_array(eng2, validator_arr, validator_dict,
\* EqualValidator()); a validator_arr that is a list is extended and
\* overridden in place
CalculateValidatorArray ==
    \E validator_dict \in ValidatorDicts :
        LET Done(before, res) ==
                /\ last' = [op |-> "calculate_validator_array", validator_arr |-> before,
                            validator_dict |-> validator_dict,
                            default_validator |-> EqualValidator, res |-> res]
                /\ validator_arr' = IF before.none THEN before ELSE res
        IN  /\ Done(validator_arr,
                    calculate_validator_array_dict(tab2, validator_arr, validator_dict,
                                                   EqualValidator))
            /\ UNCHANGED <<valVars, rowVars, runVars, diffVars, validator_registry,
                           adds, first>>

NextArr == CalculateValidatorArray

SpecArr == InitArr /\ [][NextArr]_vars

-----------------------------------------------------------------------------
(* SpecSum: a ComparisonSummary that is added to and read *)

\* most add calls on one summary
MaxAdds == 2

\* summary.count(result_type): len(self.results[result_type]), with the
\* summary as the lookup leaves it
ComparisonSummary_count(s, result_type) ==
    [summary |-> results_getitem(s, result_type), res |-> Len(s.results[result_type])]

\* summary.total(): the sum of the lengths of the first n buckets
RECURSIVE ComparisonSummary_total(_, _)
ComparisonSummary_total(s, n) ==
    IF n = 0 THEN 0
    ELSE ComparisonSummary_total(s, n - 1) + Len(s.results[s.keys[n]])

\* summary.summary(): the dict of name and bucket length of every key of
\* results, as the list of its items
ComparisonSummary_summary(s) ==
    [k \in DOMAIN s.keys |-> [key |-> s.keys[k], value |-> Len(s.results[s.keys[k]])]]

\* summary.get_cells(result_type): self.results.get(result_type, [])
get_cells(s, result_type) == s.results[result_type]

\* the cells of a bucket that stand in column col
CellsOfColumn(cells, col) == SelectSeq(cells, LAMBDA cell : cell.col = col)

\* a seeded fault for C26: the columns taken 0-based
summary_by_header_array_0(s) ==
    LET Counts(col) ==
            [k \in DOMAIN SelectSeq(s.keys,
                    LAMBDA res : CellsOfColumn(s.results[res], col - 1) # <<>>) |->
                [key |-> SelectSeq(s.keys,
                            LAMBDA res : CellsOfColumn(s.results[res], col - 1) # <<>>)[k],
                 value |-> Len(CellsOfColumn(s.results[SelectSeq(s.keys,
                            LAMBDA res : CellsOfColumn(s.results[res], col - 1) # <<>>)[k]],
                            col - 1))]]
    IN  IF s.header_values = <<>> THEN Throws("ValueError")
        ELSE Returns([col \in 1..Len(s.header_values) |-> Counts(col)])

\* summary.summary_by_header_array(): ValueError when header_values is
\* empty, else one dict per header value, as the list of its items: the
\* names of the outcomes with a cell in that column, in the order of the keys
\* of results, each with the number of those cells
summary_by_header_array(s) ==
    LET Names(col) ==
            SelectSeq(s.keys, LAMBDA res : CellsOfColumn(s.results[res], col) # <<>>)
        Item(col, res) == [key |-> res, value |-> Len(CellsOfColumn(s.results[res], col))]
        Counts(col) == [k \in DOMAIN Names(col) |-> Item(col, Names(col)[k])]
    IN  IF s.header_values = <<>> THEN Throws("ValueError")
        ELSE Returns([col \in 1..Len(s.header_values) |-> Counts(col)])

\* the header values set_header_values is called with, the empty list among
\* them
SummaryHeaders == {[c \in 1..n |-> ColumnName] : n \in 0..MaxCols}

\* the outcomes the cells are added with, and those asked for
AddedOutcomes == {"EQUALS", "DIFFERENT"}
AskedOutcomes == {"DIFFERENT", "CORRUPTED"}

InitSum ==
    /\ summary = ComparisonSummary
    /\ adds = [result \in ComparisonResult |-> 0]
    /\ last = NoCall /\ first = NoCall /\ validator_registry = NoRegistry
    /\ formats2 = <<>> /\ readonly2 = Writable /\ start_max_cols2 = 0
    /\ entry = NoEntry
    /\ ValIdle /\ RowIdle /\ validator_arr = NoneList /\ RunIdle

\* what a call on the summary leaves alone
SummaryFrame ==
    UNCHANGED <<valVars, rowVars, validator_arr, runVars, formats2, readonly2,
                start_max_cols2, entry, validator_registry, first>>

\* summary.add(1, col, 1, 5, result); col 0 and MaxCols + 1 are columns of no
\* header
Add ==
    \E col \in 0..(MaxCols + 1), result \in AddedOutcomes :
        /\ ComparisonSummary_total(summary, Len(summary.keys)) < MaxAdds
        /\ summary' = ComparisonSummary_add(summary, 1, col, IntV(1), IntV(5), result)
        /\ adds' = [adds EXCEPT ![result] = @ + 1]
        /\ last' = [op |-> "add"]
        /\ SummaryFrame

\* summary.count(result_type)
Count ==
    \E result_type \in AskedOutcomes :
        /\ summary' = ComparisonSummary_count(summary, result_type).summary
        /\ last' = [op |-> "count", result_type |-> result_type,
                    res |-> ComparisonSummary_count(summary, result_type).res]
        /\ UNCHANGED adds /\ SummaryFrame

\* summary.total()
Total ==
    /\ last' = [op |-> "total",
                res |-> ComparisonSummary_total(summary, Len(summary.keys))]
    /\ UNCHANGED <<summary, adds>> /\ SummaryFrame

\* summary.summary()
Summary ==
    /\ last' = [op |-> "summary", res |-> ComparisonSummary_summary(summary)]
    /\ UNCHANGED <<summary, adds>> /\ SummaryFrame

\* summary.get_cells(result_type)
GetCells ==
    \E result_type \in AskedOutcomes :
        /\ last' = [op |-> "get_cells", result_type |-> result_type,
                    res |-> get_cells(summary, result_type)]
        /\ UNCHANGED <<summary, adds>> /\ SummaryFrame

\* summary.set_header_values(header_values)
SetHeaderValues ==
    \E header_values \in SummaryHeaders :
        /\ summary' = set_header_values(summary, header_values)
        /\ last' = [op |-> "set_header_values", header_values |-> header_values]
        /\ UNCHANGED adds /\ SummaryFrame

\* summary.summary_by_header_array()
SummaryByHeaderArray ==
    /\ last' = [op |-> "summary_by_header_array", res |-> summary_by_header_array(summary)]
    /\ UNCHANGED <<summary, adds>> /\ SummaryFrame

NextSum ==
    \/ Add \/ Count \/ Total \/ Summary \/ GetCells \/ SetHeaderValues
    \/ SummaryByHeaderArray

SpecSum == InitSum /\ [][NextSum]_vars

-----------------------------------------------------------------------------
(* SpecTwice: the differator run twice on the same tables, each time with a *)
(* fresh summary                                                            *)

InitTwice ==
    /\ tab1 \in DiffMeasuredTables /\ tab2 \in DiffReferenceTables
    /\ validator_arr \in DiffValidatorArrays
    /\ readonly2 \in Engines
    /\ summary = ComparisonSummary
    /\ formats2 = FormatsOf(tab2)
    /\ start_max_cols2 = 0 /\ entry = NoEntry
    /\ consumer = "None"
    /\ enum1 = TableRowEnumerator(EmptyTable) /\ enum2 = TableRowEnumerator(EmptyTable)
    /\ max_rows = 0 /\ r = 0 /\ all_differences = NoneList /\ calls = <<>>
    /\ returned = [bulk |-> Pending, streaming |-> Pending]
    /\ pc = "new"
    /\ first = [op |-> "none", tab2 |-> tab2]
    /\ validator_registry = NoRegistry /\ adds = <<>> /\ last = NoCall
    /\ ValIdle /\ RowIdle

\* the caller, after the first run has returned or raised: it keeps the
\* summary of that run and starts over with summary = ComparisonSummary() on
\* the two tables as the run left them; first holds how the first run ended,
\* the reference table it started on (tab2) and the one it left (left2)
RunAgain ==
    /\ pc \in {"returned", "raised"} /\ first.op = "none"
    /\ first' = [op |-> entry.op, entry |-> entry, summary |-> summary,
                 returned |-> returned.streaming, tab2 |-> first.tab2,
                 left2 |-> tab2]
    /\ summary' = ComparisonSummary
    /\ calls' = <<>>
    /\ returned' = [bulk |-> Pending, streaming |-> Pending]
    /\ pc' = "new"
    /\ UNCHANGED <<tab1, tab2, validator_arr, consumer, enum1, enum2, max_rows, r,
                   all_differences, formats2, readonly2, start_max_cols2, entry,
                   valVars, rowVars, validator_registry, adds, last>>

NextTwice ==
    \/ differentiate_sheets_by_ws \/ DiffConsumer \/ DiffEnter \/ DiffNextRow
    \/ DiffReturn \/ RunAgain

SpecTwice == InitTwice /\ [][NextTwice]_vars

-----------------------------------------------------------------------------
(* SpecEnum: a TableRowEnumerator on a table, next() and add_row(values)    *)
(* called in any order (excel_table_engine.py, 267-329)                     *)

\* the most rows the add_row calls of one run insert
MaxInserts == 2

\* TableEngine.add_row(row): a new row at the given position; the rows from
\* there on move down by one
TableEngine_add_row(engine, row) ==
    [engine EXCEPT !.rows =
        [i \in 1..(Len(engine.rows) + 1) |->
            IF i < row THEN engine.rows[i]
            ELSE IF i = row THEN [c \in 1..engine.max_col |-> NoneV]
            ELSE engine.rows[i - 1]]]

\* TableEngine.set_row_values(row, values): set_cell_value(row, idx + 1,
\* value) for every value; a cell past the last column widens the table
TableEngine_set_row_values(engine, row, values) ==
    LET Width(w) ==
            [max_col |-> w,
             rows |-> [i \in DOMAIN engine.rows |->
                        [c \in 1..w |->
                            IF i = row /\ c <= Len(values) THEN values[c]
                            ELSE IF c <= Len(engine.rows[i]) THEN engine.rows[i][c]
                            ELSE NoneV]]]
    IN  Width(IF Len(values) > engine.max_col THEN Len(values) ELSE engine.max_col)

\* add_row of an enumerator that keeps the row count it read at construction
TableRowEnumerator_add_row_cached(enum, eng2, engine, values) ==
    IF eng2.is_engine_readonly
    THEN [exc |-> "NotImplementedError", enum |-> enum, engine |-> engine, res |-> 0]
    ELSE [exc |-> "none",
          enum |-> [enum EXCEPT !.current = @ + 1],
          engine |-> TableEngine_set_row_values(
                         TableEngine_add_row(engine, enum.current),
                         enum.current, values),
          res |-> enum.current]

\* TableRowEnumerator.add_row(values): engine.add_row(current), then
\* engine.set_row_values(current, values); returns the position and moves
\* current and max_row on by one. A TableEnginePyexcel raises in
\* engine.add_row, before anything has changed.
TableRowEnumerator_add_row(enum, eng2, engine, values) ==
    IF eng2.is_engine_readonly
    THEN [exc |-> "NotImplementedError", enum |-> enum, engine |-> engine, res |-> 0]
    ELSE [exc |-> "none",
          enum |-> [current |-> enum.current + 1, max_row |-> enum.max_row + 1],
          engine |-> TableEngine_set_row_values(
                         TableEngine_add_row(engine, enum.current),
                         enum.current, values),
          res |-> enum.current]

\* the rows a caller inserts: one to MaxCols + 1 cells, none of them a value
\* of the tables
InsertedValues == {[c \in 1..w |-> IntV(7)] : w \in 1..(MaxCols + 1)}

\* a TableEnginePyxl on a workbook that can be written and a
\* TableEnginePyexcel
EnumEngines == {Writable, [is_readonly |-> TRUE, is_engine_readonly |-> TRUE]}

InitEnum ==
    /\ tab2 \in ReferenceTables /\ readonly2 \in EnumEngines
    /\ enum2 = TableRowEnumerator(tab2)
    /\ first = [op |-> "none", tab2 |-> tab2]
    /\ last = NoCall
    /\ tab1 = EmptyTable /\ consumer = "None"
    /\ enum1 = TableRowEnumerator(EmptyTable)
    /\ max_rows = 0 /\ r = 0 /\ all_differences = NoneList /\ calls = <<>>
    /\ returned = [bulk |-> Pending, streaming |-> Pending] /\ pc = "off"
    /\ formats2 = <<>> /\ start_max_cols2 = 0 /\ summary = NoSummary
    /\ entry = NoEntry /\ validator_registry = NoRegistry /\ adds = <<>>
    /\ validator_arr = NoneList
    /\ ValIdle /\ RowIdle

EnumFrame ==
    UNCHANGED <<tab1, consumer, enum1, max_rows, r, all_differences, calls, returned,
                pc, formats2, readonly2, start_max_cols2, summary, entry,
                validator_registry, adds, first, validator_arr, valVars, rowVars>>

\* next(enum2)
EnumNext ==
    LET Produced(res) ==
            /\ enum2' = res.enum
            /\ last' = [op |-> "next", stop |-> res.stop, index |-> res.index,
                        row |-> res.row]
    IN  /\ Produced(TableRowEnumerator_next(enum2, tab2))
        /\ UNCHANGED tab2
        /\ EnumFrame

\* enum2.add_row(values)
EnumAddRow ==
    LET Inserted(values, res) ==
            /\ enum2' = res.enum
            /\ tab2' = res.engine
            /\ last' = [op |-> "add_row", values |-> values, exc |-> res.exc,
                        res |-> res.res]
    IN  /\ Len(tab2.rows) < Len(first.tab2.rows) + MaxInserts
        /\ \E values \in InsertedValues :
              Inserted(values, TableRowEnumerator_add_row(enum2, readonly2, tab2, values))
        /\ EnumFrame

NextEnum == EnumNext \/ EnumAddRow

SpecEnum == InitEnum /\ [][NextEnum]_vars

-----------------------------------------------------------------------------
(* Properties of compare_a_row (SpecRow) *)

Min(a, b) == IF a < b THEN a ELSE b
Max(a, b) == IF a > b THEN a ELSE b

\* C1: the list compare_a_row returns is as long as the longer row; its first
\* min(len(row1), len(row2)) entries are the outcomes of the columns in column
\* order, and the rest are all LONGER when row1 is the longer row and all
\* SHORTER when row2 is (none when the rows are equally long).
C1_RowLengthReconciliation ==
    (rpc = "done" /\ differences.exc = "none") =>
        /\ Len(differences.value) = Max(Len(row1), Len(row2))
        /\ \A c \in 1..Min(Len(row1), Len(row2)) :
              differences.value[c] =
                 IF validator_arr.items[c].cls = "None" THEN "OMITTED"
                 ELSE Compare(validator_arr.items[c], row1[c], row2[c])
        /\ \A c \in (Min(Len(row1), Len(row2)) + 1)..Len(differences.value) :
              differences.value[c] = IF Len(row1) > Len(row2) THEN "LONGER" ELSE "SHORTER"

\* a longer row1: one column outcome, then one LONGER
C1_Witness ==
    /\ rpc = "done"
    /\ row1 = <<IntV(5), StrV(<<"5">>)>> /\ row2 = <<StrV(<<"5">>)>>
    /\ validator_arr = List(<<IntValidator>>)
    /\ differences = Returns(<<"MATCHING", "LONGER">>)

\* C4: every column of the zipped rows gets an outcome: that of the validator
\* the array holds at the column's index, and OMITTED when it holds none there
\* (a None entry, an array shorter than the rows, no array); no error comes of
\* a missing validator.
C4_MissingValidatorOmitted ==
    rpc = "done" =>
        /\ differences.exc \notin {"IndexError", "TypeError"}
        /\ differences.exc = "none" =>
              \A c \in 1..Min(Len(row1), Len(row2)) :
                 differences.value[c] =
                    IF \/ validator_arr.none
                       \/ c > Len(validator_arr.items)
                       \/ validator_arr.items[c].cls = "None"
                    THEN "OMITTED"
                    ELSE Compare(validator_arr.items[c], row1[c], row2[c])

\* an array shorter than the zipped rows ends the call with IndexError
C4_Witness ==
    /\ rpc = "done"
    /\ row1 = <<IntV(5)>> /\ row2 = <<IntV(5)>>
    /\ validator_arr = List(<<>>)
    /\ differences = Throws("IndexError")

-----------------------------------------------------------------------------
(* Properties of compare_sheets_by_enum (Spec) *)

\* the row-pairs the current call has produced, in the order produced, each
\* with its logical row number: the bulk list, or the consumer's calls
Produced ==
    IF consumer = "None"
    THEN [k \in 1..Len(all_differences.items) |->
             consumer_diff(k, all_differences.items[k].index1,
                           all_differences.items[k].row1,
                           all_differences.items[k].index2,
                           all_differences.items[k].row2,
                           all_differences.items[k].differences)]
    ELSE calls

\* C2: in every produced row-pair, each zipped cell of logical row 1 has the
\* strict-equality outcome, whatever the caller's array holds, and each zipped
\* cell of a later row has the outcome of the caller's validator at the
\* cell's column index.
C2_HeaderStrictRowsByValidator ==
    \A k \in 1..Len(Produced) :
        \A c \in 1..Min(Len(Produced[k].row1), Len(Produced[k].row2)) :
            IF Produced[k].r = 1
            THEN Produced[k].differences[c] =
                    EqualValidator_compare(Produced[k].row1[c], Produced[k].row2[c])
            ELSE validator_arr.items[c].cls # "None" =>
                    Produced[k].differences[c] =
                       Compare(validator_arr.items[c], Produced[k].row1[c],
                               Produced[k].row2[c])

\* row 1 holds "5" against 5 under an integer-aware validator and is DIFFERENT;
\* row 2 holds the same pair under the same validator and is MATCHING
C2_Witness ==
    /\ pc = "returned" /\ consumer = "None"
    /\ validator_arr = List(<<IntValidator, IntValidator>>)
    /\ Len(all_differences.items) = 2
    /\ all_differences.items[1].differences = <<"EQUALS", "DIFFERENT">>
    /\ all_differences.items[2].differences = <<"MATCHING", "EQUALS">>

\* C3: a run over sources of n1 and n2 rows produces exactly max(n1, n2)
\* row-pairs, for the logical rows 1..max(n1, n2) in increasing order (none
\* when both sources are empty); beyond a source's last row its row is empty
\* and its index -1, elsewhere its index is a positive row position.
C3_OnePairPerLogicalRow ==
    (pc = "returned") =>
        /\ Len(Produced) = Max(Len(tab1.rows), Len(tab2.rows))
        /\ \A k \in 1..Len(Produced) :
              /\ Produced[k].r = k
              /\ IF k > Len(tab1.rows)
                 THEN Produced[k].row1 = <<>> /\ Produced[k].index1 = -1
                 ELSE Produced[k].index1 > 0
              /\ IF k > Len(tab2.rows)
                 THEN Produced[k].row2 = <<>> /\ Produced[k].index2 = -1
                 ELSE Produced[k].index2 > 0

\* two empty sources: the run returns one row-pair
C3_Witness ==
    /\ pc = "returned" /\ consumer = "None"
    /\ tab1 = EmptyTable /\ tab2 = EmptyTable
    /\ returned.bulk = Returns(List(<<all_differences_tuple(-1, <<>>, -1, <<>>, <<>>)>>))

\* C5: once bulk mode has returned its list, a streaming run over the same
\* sources and validators with a recording consumer passes the consumer
\* exactly the tuples of that list, in order, and returns None; bulk mode
\* calls no consumer.
C5_StreamingEqualsBulk ==
    /\ consumer = "None" => calls = <<>>
    /\ (consumer \in Recorders /\ pc \in {"returned", "raised"}
        /\ returned.bulk.exc = "none") =>
          /\ returned.streaming = Returns(NoneList)
          /\ returned.bulk.value.items =
                [k \in 1..Len(calls) |->
                    all_differences_tuple(calls[k].index1, calls[k].row1,
                                          calls[k].index2, calls[k].row2,
                                          calls[k].differences)]

\* the consumer that is the (still empty) list of its calls: bulk mode
\* returned two row-pairs, streaming mode passed none and raised
C5_Witness ==
    /\ pc = "raised" /\ consumer = "list_recorder"
    /\ returned.bulk.exc = "none"
    /\ Len(returned.bulk.value.items) = 2
    /\ returned.streaming = Throws("AttributeError")
    /\ calls = <<>>

-----------------------------------------------------------------------------
(* Properties of the validators (SpecVal) *)

\* the detectors' answers, where they give one
IntLike(v) ==
    is_int_then_normalize(v).exc = "none" /\ is_int_then_normalize(v).like
FloatLike(v) ==
    is_float_then_normalize(v).exc = "none" /\ is_float_then_normalize(v).like
NumberLike(v) ==
    is_number_then_normalize(v).exc = "none" /\ is_number_then_normalize(v).like

\* C6: compare of every validator, on every pair of values, returns an
\* outcome and never raises.
C6_CompareTotal == vpc = "done" => outcome \in ComparisonResult

\* the integer-aware validator on a NaN
C6_Witness ==
    /\ vpc = "done" /\ validator = IntValidator
    /\ val1 = NaN /\ val2 = IntV(1)
    /\ outcome = "ValueError"

\* v cannot be normalized to the kind of the validator of class cls
Malformed(cls, v) ==
    CASE cls = "BoolValidator" -> BoolValidator_normalize(v).exc # "none"
      [] cls = "DateValidator" -> DateValidator_normalize(v).exc # "none"
      [] cls = "IntValidator" -> ~IntLike(v)
      [] cls = "NumberValidator" -> ~NumberLike(v)
      [] cls = "TolerantFloatValidator" -> ~FloatLike(v)
      [] OTHER -> FALSE

\* C7: the boolean-aware, date-aware, integer-aware, tolerant-numeric and
\* tolerance-banded validators return CORRUPTED whenever at least one input is
\* malformed for the validator, also when the two inputs are equal.
C7_MalformedCorrupted ==
    (vpc = "done" /\ (Malformed(validator.cls, val1) \/ Malformed(validator.cls, val2)))
        => outcome = "CORRUPTED"

\* two equal strings that are no numbers, under the integer-aware validator
C7_Witness ==
    /\ vpc = "done" /\ validator = IntValidator
    /\ val1 = StrV(<<"a", "b", "c">>) /\ val2 = val1
    /\ outcome = "EQUALS"

\* both values are detected as number-like, their normalized values are
\* equal, and the values differ in type or in text
SameNumberOtherForm ==
    /\ NumberLike(val1) /\ NumberLike(val2)
    /\ PyEq(is_number_then_normalize(val1).norm, is_number_then_normalize(val2).norm)
    /\ val1 # val2

\* C8 as stated: for number-like values of equal normalized magnitude and
\* different literal form, the tolerant-numeric and the integer-aware
\* validator both return MATCHING.
C8_Original ==
    (vpc = "done" /\ validator.cls \in {"IntValidator", "NumberValidator"}
     /\ SameNumberOtherForm)
        => outcome = "MATCHING"

\* C8: for values detected as number-like, of equal normalized magnitude and
\* different literal form, the tolerant-numeric validator returns MATCHING;
\* the integer-aware validator returns MATCHING when both values are
\* integer-like and CORRUPTED when one is not; neither returns EQUALS.
C8_MatchingNeverEquals ==
    (vpc = "done" /\ SameNumberOtherForm) =>
        /\ validator.cls = "NumberValidator" => outcome = "MATCHING"
        /\ validator.cls = "IntValidator" =>
              outcome = IF IntLike(val1) /\ IntLike(val2) THEN "MATCHING" ELSE "CORRUPTED"

\* 5 against 5.0 is MATCHING under both validators, and "5.0" against 5 is
\* CORRUPTED under the integer-aware one
C8_Witness ==
    /\ vpc = "done"
    /\ \/ /\ validator.cls \in {"IntValidator", "NumberValidator"}
          /\ val1 = IntV(5) /\ val2 = F(<<"5", ".", "0">>) /\ outcome = "MATCHING"
       \/ /\ validator = IntValidator
          /\ val1 = StrV(<<"5", ".", "0">>) /\ val2 = IntV(5) /\ outcome = "CORRUPTED"

\* C9: tolerant-numeric(precision) gives EQUALS for raw-equal values of the
\* same kind; else MATCHING or DIFFERENT for two integer-like values, by
\* their integers; else, for two float-like values, MATCHING if
\* normalized-equal, ALMOST if equal after rounding to precision digits, and
\* DIFFERENT if not; CORRUPTED for every other pair.
C9_NumberRuleOrder ==
    (vpc = "done" /\ validator.cls = "NumberValidator") =>
        outcome =
            IF val1.t = val2.t /\ PyEq(val1, val2) THEN "EQUALS"
            ELSE IF IntLike(val1) /\ IntLike(val2)
                 THEN IF PyEq(is_int_then_normalize(val1).norm,
                              is_int_then_normalize(val2).norm)
                      THEN "MATCHING" ELSE "DIFFERENT"
            ELSE IF FloatLike(val1) /\ FloatLike(val2)
                 THEN IF PyEq(is_float_then_normalize(val1).norm,
                              is_float_then_normalize(val2).norm)
                      THEN "MATCHING"
                      ELSE IF PyEq(round(is_float_then_normalize(val1).norm,
                                         validator.float_precision),
                                   round(is_float_then_normalize(val2).norm,
                                         validator.float_precision))
                           THEN "ALMOST" ELSE "DIFFERENT"
            ELSE "CORRUPTED"

\* a NaN against a float: the claim's DIFFERENT is a ValueError
C9_Witness ==
    /\ vpc = "done" /\ validator.cls = "NumberValidator"
    /\ val1 = NaN /\ val2 = F(<<"5", ".", "5">>)
    /\ outcome = "ValueError"

\* x lies in [ref - down, ref + up], on the decimal values
InBand(x, ref, up, down) ==
    /\ x.c = "fin" /\ ref.c = "fin"
    /\ ref.n - down.n <= x.n /\ x.n <= ref.n + up.n

\* C10: tolerance-banded-float(up, down, precision) on two float-like values
\* that are not raw-equal returns MATCHING if the normalized values are
\* equal, else ALMOST if they are equal after rounding to precision digits,
\* else ACCEPTED if value2 - down <= value1 <= value2 + up, else DIFFERENT.
C10_ToleranceBand ==
    (vpc = "done" /\ validator.cls = "TolerantFloatValidator"
     /\ FloatLike(val1) /\ FloatLike(val2) /\ ~PyEq(val1, val2)) =>
        outcome =
            IF PyEq(is_float_then_normalize(val1).norm, is_float_then_normalize(val2).norm)
            THEN "MATCHING"
            ELSE IF PyEq(round(is_float_then_normalize(val1).norm,
                               validator.float_precision),
                         round(is_float_then_normalize(val2).norm,
                               validator.float_precision))
                 THEN "ALMOST"
            ELSE IF InBand(is_float_then_normalize(val1).norm,
                           is_float_then_normalize(val2).norm,
                           validator.delta_up, validator.delta_down)
                 THEN "ACCEPTED"
            ELSE "DIFFERENT"

\* up = 0.02, down = 0.01: 5.02 against the reference 5.0 lies on the upper
\* bound and is ACCEPTED, while 5.0 against the reference 5.02 is DIFFERENT
C10_Witness ==
    /\ vpc = "done"
    /\ validator = TolerantFloatValidator(F(<<"0", ".", "0", "2">>),
                                          F(<<"0", ".", "0", "1">>), 2)
    /\ val1 = F(<<"5", ".", "0", "2">>) /\ val2 = F(<<"5", ".", "0">>)
    /\ outcome = "ACCEPTED"
    /\ TolerantFloatValidator_compare(validator.delta_up, validator.delta_down,
                                      validator.float_precision, val2, val1)
          = "DIFFERENT"

-----------------------------------------------------------------------------
(* The boolean-aware, date-aware and automatic validators (SpecVal) *)

\* the forms the boolean-aware validator is to recognize: a native boolean,
\* the numbers 0 and 1, and a synonym string after trimming and lowering
RecognizedBoolean(v) ==
    \/ v.t = "bool"
    \/ v.t \in {"int", "float"} /\ (PyEq(v, IntV(0)) \/ PyEq(v, IntV(1)))
    \/ v.t = "str" /\ Lower(Strip(v.s)) \in BOOL_VALUES

\* the boolean a recognized form stands for
BooleanOf(v) ==
    IF v.t = "str" THEN Lower(Strip(v.s)) \in TRUE_VALUES ELSE v.n # 0

Truncated(d, precision) ==
    CASE precision = "day" -> <<d.n, 0, 0>>
      [] precision = "hour" -> <<d.n, (d.m \div 3600) * 3600, 0>>
      [] precision = "minute" -> <<d.n, (d.m \div 60) * 60, 0>>
      [] precision = "second" -> <<d.n, d.m, 0>>

\* C12: date-aware(precision), precision one of day, hour, minute, second,
\* on two values that both normalize to date-times returns EQUALS when the
\* date-times are equal and the raw values are equal, MATCHING when the
\* date-times are equal and the raw values are not, else ALMOST when the
\* date-times are equal after dropping the fields finer than precision, else
\* DIFFERENT.
C12_DatePrecision ==
    (/\ vpc = "done" /\ validator.cls = "DateValidator"
     /\ validator.precision \in DatePrecisions
     /\ DateValidator_normalize(val1).exc = "none"
     /\ DateValidator_normalize(val2).exc = "none") =>
        outcome =
            IF DateValidator_normalize(val1).norm = DateValidator_normalize(val2).norm
            THEN (IF PyEq(val1, val2) THEN "EQUALS" ELSE "MATCHING")
            ELSE IF Truncated(DateValidator_normalize(val1).norm, validator.precision)
                    = Truncated(DateValidator_normalize(val2).norm, validator.precision)
                 THEN "ALMOST"
            ELSE "DIFFERENT"

\* 10:30 as a string against 10:45 of the same day: ALMOST by the hour, and
\* DIFFERENT by the minute
C12_Witness ==
    /\ vpc = "done" /\ validator = DateValidator("hour")
    /\ val1 = StrV(<<"2", "0", "2", "3", "-", "1", "0", "-", "0", "1", "T",
                     "1", "0", ":", "3", "0">>)
    /\ val2 = DateTimeV(20231001, 38700, 0)
    /\ outcome = "ALMOST"
    /\ DateValidator_compare("minute", val1, val2) = "DIFFERENT"

-----------------------------------------------------------------------------
(* Properties of the DiffConsumer (SpecDiff) *)

Acceptable == {"EQUALS", "MATCHING", "ALMOST", "ACCEPTED", "OMITTED"}
Unacceptable == {"DIFFERENT", "CORRUPTED"}
Structural == {"SHORTER", "LONGER"}

\* the outcome of column c (1-based) of a call of diff, a column at or beyond
\* the reference table's column count at the consumer's creation being LONGER
EffectiveOutcome(call, c) ==
    IF c - 1 >= start_max_cols2 THEN "LONGER" ELSE call.differences[c]

\* the outcomes the calls of diff have tested with ok() and foul() so far
TestedOutcomes ==
    UNION {{EffectiveOutcome(calls[k], c) : c \in DOMAIN calls[k].differences} :
              k \in DOMAIN calls}

\* C14: on every outcome diff has tested, ok() holds exactly for EQUALS,
\* MATCHING, ALMOST, ACCEPTED and OMITTED, and foul() exactly for DIFFERENT and
\* CORRUPTED; no outcome satisfies both, and SHORTER and LONGER satisfy
\* neither.
C14_OutcomePartition ==
    \A result \in TestedOutcomes :
        /\ ok(result) <=> result \in Acceptable
        /\ foul(result) <=> result \in Unacceptable
        /\ ~(ok(result) /\ foul(result))
        /\ result \in Structural => ~ok(result) /\ ~foul(result)

\* a run over a measured table with fewer rows than the reference table: it
\* has tested EQUALS on the header row and SHORTER on the rows the measured
\* table lacks
C14_Witness ==
    /\ entry.op = "DiffConsumer" /\ pc = "returned"
    /\ "EQUALS" \in TestedOutcomes /\ "SHORTER" \in TestedOutcomes
    /\ ok("EQUALS") /\ ~ok("SHORTER") /\ ~foul("SHORTER")

\* the last call of diff
LastCall == calls[Len(calls)]

\* a call of diff whose row is not fully acceptable
NotFullyAcceptable(call) ==
    \E c \in DOMAIN call.differences : EffectiveOutcome(call, c) \notin Acceptable

\* rows with row put in as the row after the reference row index2 (at the
\* end when there is no reference row)
InsertedAfter(rows, index2, row) ==
    LET At(pos) == SubSeq(rows, 1, pos - 1) \o <<row>> \o SubSeq(rows, pos, Len(rows))
    IN  At(IF index2 > 0 THEN index2 + 1 ELSE Len(rows) + 1)

ColumnsWith(call, result) ==
    LET cols == {c \in DOMAIN call.differences : EffectiveOutcome(call, c) = result}
    IN  [k \in 1..Cardinality(cols) |->
            CHOOSE c \in cols : Cardinality({x \in cols : x <= c}) = k]

\* the records (r, c + 1, value1[c], value2[c]) of those columns
RecordsOf(call, result) ==
    [k \in DOMAIN ColumnsWith(call, result) |->
        [row |-> call.r, col |-> ColumnsWith(call, result)[k],
         val1 |-> call.row1[ColumnsWith(call, result)[k]],
         val2 |-> call.row2[ColumnsWith(call, result)[k]]]]

\* C16: one call of diff for logical row r adds to an attached summary one
\* record (r, c + 1, value1[c], value2[c], outcome) for each column c whose
\* effective outcome is DIFFERENT or CORRUPTED, in column order, and none for
\* another outcome; the summary holds DIFFERENT and CORRUPTED buckets only.
C16_SummaryRecords ==
    [][/\ \A result \in ComparisonResult \ Unacceptable :
             summary'.results[result] = <<>>
       /\ calls' # calls =>
             /\ summary'.none = summary.none
             /\ \A result \in Unacceptable :
                   summary'.results[result] =
                      IF summary.none THEN <<>>
                      ELSE summary.results[result] \o RecordsOf(LastCall', result)]_vars

\* row 2 with column 1 EQUALS and column 2 DIFFERENT, delivered to a summary
\* that held one cell: the DIFFERENT bucket has gained (2, 2, "5", 5), and
\* nothing stands in another bucket
C16_Witness ==
    /\ entry.op = "DiffConsumer" /\ ~summary.none /\ calls # <<>>
    /\ LastCall.r = 2 /\ LastCall.differences = <<"EQUALS", "DIFFERENT">>
    /\ summary.results["DIFFERENT"] =
          UsedSummary.results["DIFFERENT"]
             \o <<[row |-> 2, col |-> 2, val1 |-> StrV(<<"5">>), val2 |-> IntV(5)]>>
    /\ \A result \in ComparisonResult \ {"DIFFERENT"} : summary.results[result] = <<>>

\* the row of the reference table a measured row inserted by the call stands in
InsertedRow(rows, call) ==
    IF call.index2 > 0 THEN call.index2 + 1 ELSE Len(rows) + 1

\* the colours the cells of row i have after the call: the colour with
\* index side (1 measured, 2 reference) of the pair of each column's outcome
ColoredAs(fmts, i, call, side) ==
    \A c \in DOMAIN call.differences :
        fmts[i][c] = COLOR_MAP[EffectiveOutcome(call, c)][side]

\* C17: a call of diff whose reference row exists (index2 > 0) gives cell c of
\* the reference row the reference-side colour, the second of the pair
\* (measured-side, reference-side) of column c's outcome; a measured row the
\* call inserts gets in cell c the measured-side colour, the first of the
\* pair.
C17_CellColors ==
    [][calls' # calls =>
          /\ LastCall'.index2 > 0 =>
                ColoredAs(formats2', LastCall'.index2, LastCall', 2)
          /\ tab2'.rows # tab2.rows =>
                ColoredAs(formats2', InsertedRow(tab2.rows, LastCall'), LastCall', 1)]_vars

\* a call with an existing reference row and a DIFFERENT column: the reference
\* cell of that column holds light green, the measured-side colour of
\* DIFFERENT, and not its reference-side light red
C17_Witness ==
    /\ entry.op = "DiffConsumer" /\ calls # <<>>
    /\ LastCall.index2 > 0
    /\ \E c \in DOMAIN LastCall.differences :
          /\ EffectiveOutcome(LastCall, c) = "DIFFERENT"
          /\ formats2[LastCall.index2][c] = "CCFFCC"
          /\ COLOR_MAP["DIFFERENT"] = <<"CCFFCC", "FF9999">>

\* the columns of the records that new holds beyond those of old
NewColumns(old, new) ==
    UNION {{new.results[result][k].col :
                k \in (Len(old.results[result]) + 1)..Len(new.results[result])} :
              result \in ComparisonResult}

\* the two colours of an outcome's pair
ColorsOf(result) == {COLOR_MAP[result][1], COLOR_MAP[result][2]}

\* C18: a call of diff treats every column whose 0-based index is at or
\* beyond the column count the reference table had when the consumer was
\* created as LONGER, whatever outcome was delivered for it: the row is not
\* fully acceptable (a non-empty measured row takes the insertion branch,
\* which raises), the reference cell gets a colour of LONGER and no record
\* enters the summary; a column below the bound is coloured and recorded by
\* its delivered outcome.
C18_ForcedLonger ==
    [][calls' # calls =>
          \A c \in DOMAIN LastCall'.differences :
              IF c - 1 >= start_max_cols2
              THEN /\ LastCall'.row1 # <<>> =>
                         returned'.streaming = Throws("AttributeError")
                   /\ LastCall'.index2 > 0 =>
                         formats2'[LastCall'.index2][c] \in ColorsOf("LONGER")
                   /\ c \notin NewColumns(summary, summary')
              ELSE /\ LastCall'.index2 > 0 =>
                         formats2'[LastCall'.index2][c]
                            \in ColorsOf(LastCall'.differences[c])
                   /\ c \in NewColumns(summary, summary')
                         <=> (~summary.none
                              /\ LastCall'.differences[c] \in Unacceptable)]_vars

\* the reference table grew from one column to two after the consumer was
\* created; for row 1 the orchestrator delivered EQUALS and DIFFERENT, and
\* diff took column 2 as LONGER: its reference cell is dark purple, the
\* summary gained nothing, and the call raised on the insertion
C18_Witness ==
    /\ entry.op = "DiffConsumer" /\ pc = "raised" /\ calls # <<>>
    /\ start_max_cols2 = 1 /\ tab2.max_col = 2
    /\ LastCall.r = 1 /\ LastCall.index2 = 1
    /\ LastCall.differences = <<"EQUALS", "DIFFERENT">>
    /\ formats2[1][2] = "660066"
    /\ summary = UsedSummary
    /\ returned.streaming = Throws("AttributeError")

\* the validators differentiate_sheets_by_ws resolves from its registry
ResolvedValidators ==
    resolve_validators(entry.registry, tab2.rows[1], Max(tab1.max_col, tab2.max_col)).value

\* what the header flag asks for row 1: strict equality with has_header, the
\* resolved validators without
HeaderFlagOutcomes(has_header, call) ==
    compare_a_row(call.row1, call.row2,
                  IF has_header THEN validator_arr_nur_str(tab2)
                  ELSE ResolvedValidators)

\* C19: a call of differentiate_sheets_by_ws on a writable reference table
\* with a registry completes, delivers every row to the diff consumer, and
\* compares row 1 by strict equality when has_header is true and by the
\* validators resolved from the registry when it is false.
C19_HeaderFlag ==
    (entry.op = "differentiate_sheets_by_ws" /\ readonly2 = Writable
       /\ ~entry.registry.none) =>
        /\ returned.streaming.exc = "none"
        /\ Len(calls) = Max(Len(tab1.rows), Len(tab2.rows))
        /\ calls # <<>> =>
              Returns(calls[1].differences) = HeaderFlagOutcomes(entry.has_header, calls[1])

\* a call with has_header true and a registry, on a writable reference table
\* and a measured sheet of a header and a data row: it has ended in the
\* TypeError of the has_header argument, and no row was delivered
C19_Witness ==
    /\ entry.op = "differentiate_sheets_by_ws" /\ entry.has_header
    /\ ~entry.registry.none /\ readonly2 = Writable
    /\ Len(tab1.rows) = 2 /\ Len(tab2.rows) = 2
    /\ pc = "raised" /\ returned.streaming = Throws("TypeError")
    /\ calls = <<>>
    /\ consumer = "DiffConsumer"

\* C20: a call of differentiate_sheets_by_ws on a reference table that is
\* read-only, or whose engine supports no writes, ends with a hard error,
\* and it has written no cell value, cell format or row of the reference
\* table and added no record to the summary.
C20_ReadOnlyRefused ==
    [][(entry'.op = "differentiate_sheets_by_ws" /\ entry.op = "none"
          /\ (readonly2.is_readonly \/ readonly2.is_engine_readonly)) =>
            /\ returned'.streaming = Throws("Exception") /\ pc' = "raised"
            /\ tab2' = tab2 /\ formats2' = formats2
            /\ summary' = summary /\ calls' = <<>>]_vars

\* a call with a registry on a read-only worksheet of a writable engine, with
\* a summary that held one cell: it has ended in the Exception, the summary
\* is as it was, and no cell of the reference table has a fill colour
C20_Witness ==
    /\ entry.op = "differentiate_sheets_by_ws" /\ ~entry.registry.none
    /\ readonly2 = [is_readonly |-> TRUE, is_engine_readonly |-> FALSE]
    /\ Len(tab1.rows) = 2 /\ Len(tab2.rows) = 2
    /\ pc = "raised" /\ returned.streaming = Throws("Exception")
    /\ summary = UsedSummary /\ formats2 = FormatsOf(tab2)
    /\ consumer = "None"

-----------------------------------------------------------------------------
(* Properties of the ValidatorRegistry (SpecReg) *)

\* the validators a dict holds under a key
RegisteredUnder(d, key) == {d[k].value : k \in {j \in DOMAIN d : d[j].key = key}}

\* C21: get_validator(column_name, column_index) returns the validator
\* registered under the name if there is one, otherwise the validator
\* registered under the index if there is one, otherwise the default
\* validator; the lookup changes no registration.
C21_LookupPrecedence ==
    [][last'.op = "get_validator" =>
          /\ validator_registry' = validator_registry
          /\ IF RegisteredUnder(validator_registry.by_column_name,
                                last'.column_name) # {}
             THEN last'.res \in RegisteredUnder(validator_registry.by_column_name,
                                                last'.column_name)
             ELSE IF RegisteredUnder(validator_registry.by_column_index,
                                     last'.column_index) # {}
             THEN last'.res \in RegisteredUnder(validator_registry.by_column_index,
                                                last'.column_index)
             ELSE last'.res = validator_registry.default_validator]_vars

\* a lookup of ("a", 0) in a registry that holds a validator under the name
\* "a", another under the index 0 and a default: the one under the name came
\* back
C21_Witness ==
    /\ last.op = "get_validator"
    /\ last.column_name = StrV(<<"a">>) /\ last.column_index = 0
    /\ RegisteredUnder(validator_registry.by_column_name, StrV(<<"a">>)) = {IntValidator}
    /\ RegisteredUnder(validator_registry.by_column_index, 0) = {NumberValidator(0)}
    /\ validator_registry.default_validator = EqualValidator
    /\ last.res = IntValidator

\* column c (1-based) of the header row has no registration, by its name or
\* by its index
Unregistered(reg, header_row, c) ==
    /\ RegisteredUnder(reg.by_column_index, c - 1) = {}
    /\ c <= Len(header_row) =>
          RegisteredUnder(reg.by_column_name, header_row[c]) = {}

\* the list is dense, at least as long as the header row and as min_columns,
\* and holds the default validator where nothing is registered
DenseList(reg, header_row, min_columns, validators) ==
    /\ Len(validators) >= Max(Len(header_row), min_columns)
    /\ \A c \in DOMAIN validators :
          Unregistered(reg, header_row, c) => validators[c] = reg.default_validator

\* C22: resolve_validators(header_row, min_columns) returns without error,
\* for every header row and every min_columns (a header row longer than
\* min_columns and the default min_columns of 1 included), a dense list
\* with one validator per header column, at least max(len(header_row),
\* min_columns) long, that holds the default validator in the columns with no
\* registration.
C22_ResolveDense ==
    last.op = "resolve_validators" =>
        IF last.res.exc # "none" THEN FALSE
        ELSE DenseList(validator_registry, last.header_row, last.max_col,
                       last.res.value.items)

\* resolve_validators(["a", "b"]) with the default max_col of 1 on a registry
\* with a default validator: it ended in IndexError
C22_Witness ==
    /\ last.op = "resolve_validators"
    /\ last.header_row = <<StrV(<<"a">>), StrV(<<"b">>)>> /\ last.max_col = 1
    /\ validator_registry.default_validator = EqualValidator
    /\ last.res = Throws("IndexError")

\* the indexes registered by index
RegisteredIndexes(reg) == {reg.by_column_index[k].key : k \in DOMAIN reg.by_column_index}

\* C23: in the list resolve_validators returns, the entry at every index i
\* registered by index is the validator registered under i, also when the
\* header name of column i has a validator registered by name, and in every
\* order of registration; an index beyond the list is reached by extending
\* the list with default validators.
C23_IndexOverrides ==
    (last.op = "resolve_validators" /\ last.res.exc = "none") =>
        /\ \A i \in RegisteredIndexes(validator_registry) :
              /\ i + 1 <= Len(last.res.value.items)
              /\ last.res.value.items[i + 1]
                    \in RegisteredUnder(validator_registry.by_column_index, i)
        /\ \A c \in DOMAIN last.res.value.items :
              (c > Max(Len(last.header_row), last.max_col)
                 /\ c - 1 \notin RegisteredIndexes(validator_registry)) =>
                  last.res.value.items[c] = validator_registry.default_validator

\* index 2 was registered before index 0, "a" is registered by name, and
\* resolve_validators(["a"], 1) returned three validators: the one of index 0
\* in place of the one of "a", the default, and the one of index 2
C23_Witness ==
    /\ last.op = "resolve_validators"
    /\ last.header_row = <<StrV(<<"a">>)>> /\ last.max_col = 1
    /\ RegisteredUnder(validator_registry.by_column_name, StrV(<<"a">>)) = {IntValidator}
    /\ Len(validator_registry.by_column_index) = 2
    /\ validator_registry.by_column_index[1].key = 2
    /\ validator_registry.by_column_index[2].key = 0
    /\ validator_registry.default_validator = EqualValidator
    /\ last.res = Returns(List(<<NumberValidator(0), EqualValidator, NumberValidator(0)>>))

-----------------------------------------------------------------------------
(* Properties of calculate_validator_array (SpecArr) *)

\* the override item is for column c (1-based) of the reference table: its
\* key is the index c - 1 of a column of the table, or the name that row 1
\* holds in column c first
OverrideFor(item, c) ==
    \/ item.key.t = "int" /\ item.key.n = c - 1 /\ item.key.n < tab2.max_col
    \/ /\ item.key.t = "str" /\ tab2.rows # <<>> /\ c <= Len(tab2.rows[1])
       /\ PyEq(tab2.rows[1][c], item.key)
       /\ \A d \in 1..(c - 1) : ~PyEq(tab2.rows[1][d], item.key)

\* what column c holds: the value of the last override for it, else the
\* entry of the validator_arr handed in, else the default validator
OverriddenEntry(call, c) ==
    LET For == {k \in DOMAIN call.validator_dict : OverrideFor(call.validator_dict[k], c)}
    IN  IF For # {}
        THEN call.validator_dict[CHOOSE k \in For : \A j \in For : j <= k].value
        ELSE IF ~call.validator_arr.none /\ c <= Len(call.validator_arr.items)
        THEN call.validator_arr.items[c]
        ELSE call.default_validator

\* C24: calculate_validator_array returns a list with at least as many
\* entries as the reference table has columns, the missing entries filled
\* with the default validator; an override under a column name that row 1
\* of the reference table does not hold is dropped without error and changes
\* no entry, and the other overrides of the dictionary are applied.
C24_OverridesApplied ==
    last.op = "calculate_validator_array" =>
        /\ ~last.res.none
        /\ Len(last.res.items) =
              Max(tab2.max_col,
                  IF last.validator_arr.none THEN 0 ELSE Len(last.validator_arr.items))
        /\ \A c \in DOMAIN last.res.items :
              last.res.items[c] = OverriddenEntry(last, c)

\* a reference table with the header row ("a", "a"), no validator_arr, and
\* the overrides {"b": ..., 0: ...}: "b" was dropped, index 0 was applied,
\* and column 2 holds the default
C24_Witness ==
    /\ last.op = "calculate_validator_array"
    /\ tab2.rows = <<<<StrV(<<"a">>), StrV(<<"a">>)>>>>
    /\ last.validator_arr.none
    /\ Len(last.validator_dict) = 2
    /\ last.validator_dict[1].key = StrV(<<"b">>)
    /\ last.validator_dict[2].key = IntV(0)
    /\ last.res = List(<<NumberValidator(0), EqualValidator>>)

-----------------------------------------------------------------------------
(* Properties of the ComparisonSummary (SpecSum) *)

\* the number of add calls made so far
RECURSIVE AddCalls(_)
AddCalls(outcomes) ==
    IF outcomes = {} THEN 0
    ELSE adds[CHOOSE result \in outcomes : TRUE]
            + AddCalls(outcomes \ {CHOOSE result \in outcomes : TRUE})

\* the dict has an entry for exactly the outcomes added at least once, each
\* with the number of its add calls
CountsOfAdds(items, added) ==
    /\ {items[k].key : k \in DOMAIN items} = {result \in ComparisonResult : added[result] > 0}
    /\ \A k \in DOMAIN items : items[k].value = added[items[k].key]
    /\ \A j, k \in DOMAIN items : items[j].key = items[k].key => j = k

\* C25: after any sequence of add, count, total, summary and get_cells calls
\* total() is the number of add calls made and summary() has an entry for
\* exactly the outcomes added at least once, each with the number of its add
\* calls; count, total, summary and get_cells do not change what summary()
\* returns.
C25_SummaryCounts ==
    [][/\ last'.op = "total" => last'.res = AddCalls(ComparisonResult)
       /\ last'.op = "summary" => CountsOfAdds(last'.res, adds)
       /\ last'.op \in {"count", "total", "summary", "get_cells"} =>
             ComparisonSummary_summary(summary') = ComparisonSummary_summary(summary)]_vars

\* one DIFFERENT cell was added and CORRUPTED was counted: summary() returned
\* {"DIFFERENT": 1, "CORRUPTED": 0}, an entry for an outcome never added
C25_Witness ==
    /\ last.op = "summary"
    /\ adds = [result \in ComparisonResult |-> IF result = "DIFFERENT" THEN 1 ELSE 0]
    /\ last.res = <<[key |-> "DIFFERENT", value |-> 1], [key |-> "CORRUPTED", value |-> 0]>>

\* the number of recorded cells of an outcome that stand in column col
CellsIn(result, col) ==
    Cardinality({i \in DOMAIN summary.results[result] :
                    summary.results[result][i].col = col})

\* the count-map gives every outcome with a cell in column col the number of
\* those cells, and has no entry for another outcome
CountMapOf(items, col) ==
    /\ {items[k].key : k \in DOMAIN items}
          = {result \in ComparisonResult : CellsIn(result, col) > 0}
    /\ \A k \in DOMAIN items : items[k].value = CellsIn(items[k].key, col)
    /\ \A j, k \in DOMAIN items : items[j].key = items[k].key => j = k

\* C26: summary_by_header_array() fails with ValueError while no header
\* names are set; with n header names set it returns a list of exactly n
\* count-maps in which map k (0-based) gives, per outcome name, the number of
\* recorded cells of column k + 1, with no entry for an outcome that has none
\* there; a cell whose column is outside 1..n is counted nowhere.
C26_SummaryByHeader ==
    last.op = "summary_by_header_array" =>
        IF summary.header_values = <<>> THEN last.res = Throws("ValueError")
        ELSE IF last.res.exc # "none" THEN FALSE
        ELSE /\ Len(last.res.value) = Len(summary.header_values)
             /\ \A col \in DOMAIN last.res.value : CountMapOf(last.res.value[col], col)

\* two header names are set, a DIFFERENT cell stands in column 2 and an
\* EQUALS cell in column 3, beyond the header: the array is
\* [{}, {"DIFFERENT": 1}]
C26_Witness ==
    /\ last.op = "summary_by_header_array"
    /\ Len(summary.header_values) = 2
    /\ CellsIn("DIFFERENT", 2) = 1 /\ CellsIn("EQUALS", 3) = 1
    /\ last.res = Returns(<<<<>>, <<[key |-> "DIFFERENT", value |-> 1]>>>>)

-----------------------------------------------------------------------------
(* Properties of two runs of the differator (SpecTwice) *)

\* the second run has ended, and it was the same call as the first
SecondRunEnded ==
    /\ first.op # "none" /\ pc \in {"returned", "raised"}
    /\ entry = first.entry

\* the two summaries agree: the same count per outcome, the same counts per
\* column, the same cells
SameSummaries(s1, s2) ==
    /\ ComparisonSummary_summary(s1) = ComparisonSummary_summary(s2)
    /\ summary_by_header_array(s1) = summary_by_header_array(s2)
    /\ s1.results = s2.results

-----------------------------------------------------------------------------
(* Properties of TableRowEnumerator.add_row (SpecEnum) *)

\* the first n cells of a row
Cells(row, n) == [c \in 1..n |-> row[c]]

\* rows is old with values as a new row at position at
RowInsertedAt(old, rows, at, values) ==
    /\ Len(rows) = Len(old) + 1
    /\ Cells(rows[at], Len(values)) = values
    /\ \A i \in 1..Len(old) :
          Cells(rows[IF i < at THEN i ELSE i + 1], Len(old[i])) = old[i]

\* the rows next() has still to produce
RowsToProduce(enum) == enum.max_row - enum.current + 1

\* C28: add_row(values) of the row-sequence wrapper inserts the values as a
\* new row at the cursor's position, returns that position, and moves the
\* cursor and the known max row count on by exactly one; so after any sequence
\* of next() and add_row() calls the known max row count is the row count of
\* the table, and add_row leaves the number of rows still to be produced
\* unchanged.
C28_AddRowKeepsCount ==
    /\ [](enum2.max_row = Len(tab2.rows))
    /\ [][(last'.op = "add_row" /\ last'.exc = "none" /\ enum2' # enum2) =>
            /\ RowInsertedAt(tab2.rows, tab2'.rows, enum2.current, last'.values)
            /\ last'.res = enum2.current
            /\ enum2'.current = enum2.current + 1
            /\ enum2'.max_row = enum2.max_row + 1
            /\ RowsToProduce(enum2') = RowsToProduce(enum2)]_vars

\* a row was inserted at position 2 after next() had produced row 1 of a
\* table of two or more rows
C28_Witness ==
    /\ last.op = "add_row" /\ last.exc = "none" /\ last.res = 2
    /\ enum2.current = 3
    /\ Len(first.tab2.rows) >= 2
    /\ Len(tab2.rows) = Len(first.tab2.rows) + 1
    /\ tab2.rows[2][1] = IntV(7)
    /\ tab2.rows[3] = first.tab2.rows[2]

-----------------------------------------------------------------------------
(* Properties of a streaming run with insertions (SpecTwice, first run) *)

\* the first run of the diff consumer has ended
FirstRunEnded ==
    first.op = "none" /\ entry.op = "DiffConsumer" /\ pc \in {"returned", "raised"}

\* the calls of diff before logical row k that had a row to insert
InsertedBefore(k) ==
    Cardinality({j \in 1..(k - 1) :
                    /\ j <= Len(calls)
                    /\ NotFullyAcceptable(calls[j]) /\ calls[j].row1 # <<>>})

\* C29: in a streaming run with the DiffConsumer the rows inserted into the
\* reference table never shift the pairing: every logical row r up to the
\* reference table's initial row count is compared, once, with the original
\* r-th reference row, reported at index r plus the number of rows inserted
\* before it, and the measured rows beyond the reference's end stand
\* appended after its last row in their order.
C29_PairingUnshifted ==
    FirstRunEnded =>
        /\ \A k \in 1..Len(first.tab2.rows) :
              /\ k <= Len(calls)
              /\ calls[k].r = k
              /\ Cells(calls[k].row2, first.tab2.max_col) = first.tab2.rows[k]
              /\ calls[k].index2 = k + InsertedBefore(k)
        /\ \A k \in (Len(first.tab2.rows) + 1)..Len(tab1.rows) :
              /\ Len(tab2.rows) >= Len(tab1.rows)
              /\ Cells(tab2.rows[Len(tab2.rows) - Len(tab1.rows) + k],
                       Len(tab1.rows[k])) = tab1.rows[k]

\* a run that ended in AttributeError at a row that differs, with reference
\* rows after it that were never compared and no row inserted
C29_Witness ==
    /\ FirstRunEnded /\ pc = "raised"
    /\ returned.streaming = Throws("AttributeError")
    /\ calls # <<>> /\ NotFullyAcceptable(LastCall) /\ LastCall.row1 # <<>>
    /\ Len(calls) < Len(first.tab2.rows)
    /\ Len(tab2.rows) = Len(first.tab2.rows)

-----------------------------------------------------------------------------
(* EQUALS and raw equality (SpecVal) *)

\* the validators that compare: strict-equality, boolean-aware, date-aware,
\* integer-aware, tolerant-numeric, tolerance-banded and the automatic one
ComparingValidators ==
    {"EqualValidator", "BoolValidator", "DateValidator", "IntValidator",
     "NumberValidator", "TolerantFloatValidator", "ExcelValueValidator"}

\* C30: compare(value1, value2) of every validator returns EQUALS only if
\* the raw values satisfy value1 == value2; a pair that agrees only after
\* normalization ("5" and 5, a date string and the same native date-time) is
\* never reported as EQUALS.
C30_EqualsOnlyRawEqual ==
    (vpc = "done" /\ validator.cls \in ComparingValidators /\ outcome = "EQUALS")
        => PyEq(val1, val2)

\* the automatic validator on a date string and a native date-time that are
\* not raw-equal: EQUALS, where date-aware(day) on the pair says MATCHING
C30_Witness ==
    /\ vpc = "done" /\ validator = ExcelValueValidator
    /\ val1.t = "str" /\ val2.t = "datetime"
    /\ ~PyEq(val1, val2)
    /\ DateValidator_compare("day", val1, val2) = "MATCHING"
    /\ outcome = "EQUALS"

====
